---- MODULE Spec2Model ----
\* Autobot: extraction of lesson content into flashcard markup, materialization
\* of the images it references, and the card-creation controls.
\*
\* Strings are sequences of one-character strings, so that substring search,
\* replacement and trimming are computed as the code computes them.
EXTENDS Integers, Sequences, FiniteSets, TLC

VARIABLES
    dom,        \* the element tree handed to extractContent (nodes in document order)
    palette,    \* the kinds of node the page under test is built from
    phase,      \* position of the extraction run: "build", "extracted"
    result,     \* the ExtractResult of the last extractContent call
    options,    \* the ExtractOptions of that call
    frags,      \* normalizer: the fragment sequence under test
    npc,        \* normalizer: "build", "normalized", "renormalized"
    normOut,    \* normalizer: its output on frags
    normAgain,  \* normalizer: its output on <<normOut>>
    mat,        \* one processExtractedContent call: position, text so far, counters
    media,      \* filenames the note store holds a blob for
    chan,       \* message from the content script awaiting the background handler
    resp,       \* response of the background handler awaiting the content script
    step,       \* the step a control belongs to: its type and the parts on the page
    isAdded,    \* the control's added flag
    status,     \* the status the control displays
    clicks,     \* the onclick invocations of the control, in click order
    notes,      \* number of notes in the store that carry the step's marker
    blocks,     \* innerHTML of each free-response block under the captured element
    caps,       \* the captureElement calls on that element, in call order
    card,       \* one addCard operation: its parameters, position and fields so far
    sent,       \* the messages sent to the background handler, in order
    rpc         \* one invoke call: its arguments, requests, response and outcome

walkVars == <<dom, palette, phase, result, options>>
normVars == <<frags, npc, normOut, normAgain>>
matVars == <<mat, media, chan, resp>>
uiVars == <<step, isAdded, status, clicks, notes>>
capVars == <<blocks, caps>>
baseVars == <<walkVars, normVars, matVars, uiVars>>
cardVars == <<card, sent>>
otherVars == <<capVars, cardVars, rpc>>
vars == <<dom, palette, phase, result, options, frags, npc, normOut, normAgain, mat, media,
          chan, resp, step, isAdded, status, clicks, notes, blocks, caps,
          card, sent, rpc>>

\* ---------------------------------------------------------------------------
\* String primitives (JavaScript String methods)
\* ---------------------------------------------------------------------------

WS == {" ", "\t", "\n"}

\* the fragments parts[lo..hi] with sep between neighbours
RECURSIVE JoinRange(_, _, _, _)
JoinRange(parts, sep, lo, hi) ==
    IF lo > hi THEN <<>>
    ELSE IF lo = hi THEN parts[lo]
    ELSE JoinRange(parts, sep, lo, (lo + hi) \div 2) \o sep
            \o JoinRange(parts, sep, (lo + hi) \div 2 + 1, hi)

\* Array.prototype.join
Join(parts, sep) == JoinRange(parts, sep, 1, Len(parts))

Concat(parts) == JoinRange(parts, <<>>, 1, Len(parts))

MatchAt(s, sub, i) ==
    /\ i >= 1
    /\ i + Len(sub) - 1 <= Len(s)
    /\ \A k \in 1..Len(sub) : s[i + k - 1] = sub[k]

\* String.prototype.indexOf, 1-based; 0 when absent
IndexOf(s, sub) ==
    IF \E i \in 1..(Len(s) + 1) : MatchAt(s, sub, i)
    THEN CHOOSE i \in 1..(Len(s) + 1) :
            /\ MatchAt(s, sub, i)
            /\ \A j \in 1..(i - 1) : ~MatchAt(s, sub, j)
    ELSE 0

Includes(s, sub) == IndexOf(s, sub) # 0

StartsWith(s, prefix) == MatchAt(s, prefix, 1)

\* String.prototype.replace with a string pattern: the first occurrence only
ReplaceFirst(s, sub, rep) ==
    LET i == IndexOf(s, sub) IN
    IF i = 0 THEN s
    ELSE SubSeq(s, 1, i - 1) \o rep \o SubSeq(s, i + Len(sub), Len(s))

\* number of (possibly overlapping) occurrences of sub in s
Occurrences(s, sub) == Cardinality({i \in 1..Len(s) : MatchAt(s, sub, i)})

\* String.prototype.trimStart
TrimStart(s) ==
    LET kept == {i \in 1..Len(s) : s[i] \notin WS} IN
    IF kept = {} THEN <<>>
    ELSE SubSeq(s, CHOOSE i \in kept : \A j \in kept : i <= j, Len(s))

\* String.prototype.trimEnd
TrimEnd(s) ==
    LET kept == {i \in 1..Len(s) : s[i] \notin WS} IN
    IF kept = {} THEN <<>>
    ELSE SubSeq(s, 1, CHOOSE i \in kept : \A j \in kept : j <= i)

\* String.prototype.trim
Trim(s) == TrimEnd(TrimStart(s))

Digit(d) == CASE d = 0 -> "0" [] d = 1 -> "1" [] d = 2 -> "2" [] d = 3 -> "3"
              [] d = 4 -> "4" [] d = 5 -> "5" [] d = 6 -> "6" [] d = 7 -> "7"
              [] d = 8 -> "8" [] d = 9 -> "9"

\* template-literal formatting of a non-negative integer
RECURSIVE Dec(_)
Dec(n) == IF n < 10 THEN <<Digit(n)>> ELSE Dec(n \div 10) \o <<Digit(n % 10)>>

\* ---------------------------------------------------------------------------
\* Content normalizer (the cleanup chain at the end of extractContent)
\* ---------------------------------------------------------------------------

BR == <<"<", "b", "r", ">">>

\* A global regular-expression replace takes the leftmost match, then goes on
\* from the end of that match.  For the five patterns of the chain this fixes,
\* for every character, what it contributes to the result.

HS == {" ", "\t"}

\* .replace(/[ \t]+/g, ' '): a run of spaces and tabs gives one space
CollapseHorizontal(s) ==
    Concat([i \in 1..Len(s) |->
        IF s[i] \notin HS THEN <<s[i]>>
        ELSE IF i < Len(s) /\ s[i + 1] \in HS THEN <<>>
        ELSE <<" ">>])

\* .replace(/ ?\n ?/g, '\n'): a space next to a newline goes with it
CleanAroundNewlines(s) ==
    Concat([i \in 1..Len(s) |->
        IF /\ s[i] = " "
           /\ \/ i < Len(s) /\ s[i + 1] = "\n"
              \/ i > 1 /\ s[i - 1] = "\n"
        THEN <<>>
        ELSE <<s[i]>>])

\* number of newlines right before position i
NewlinesBefore(s, i) ==
    LET others == {j \in 1..(i - 1) : s[j] # "\n"} IN
    IF others = {} THEN i - 1
    ELSE i - 1 - (CHOOSE j \in others : \A k \in others : k <= j)

\* number of newlines right after position i
NewlinesAfter(s, i) ==
    LET others == {j \in (i + 1)..Len(s) : s[j] # "\n"} IN
    IF others = {} THEN Len(s) - i
    ELSE (CHOOSE j \in others : \A k \in others : j <= k) - i - 1

\* .replace(/\n{3,}/g, '\n\n'): of a run of three or more, two stay
CapNewlines(s) ==
    Concat([i \in 1..Len(s) |->
        IF /\ s[i] = "\n"
           /\ NewlinesBefore(s, i) >= 2
        THEN <<>>
        ELSE <<s[i]>>])

\* .replace(/\n\n/g, '<br><br>'): the pairs of a run, counted from its start
ParagraphBreaks(s) ==
    Concat([i \in 1..Len(s) |->
        IF /\ s[i] = "\n"
           /\ \/ NewlinesBefore(s, i) % 2 = 1
              \/ NewlinesAfter(s, i) >= 1
        THEN BR
        ELSE <<s[i]>>])

\* .replace(/\n/g, '<br>') with a string pattern: the first newline only
LineBreakFirstOnly(s) == ReplaceFirst(s, <<"\n">>, BR)

\* .replace(/\n/g, '<br>')
LineBreaks(s) ==
    Concat([i \in 1..Len(s) |-> IF s[i] = "\n" THEN BR ELSE <<s[i]>>])

normalize(parts) ==
    Trim(LineBreaks(ParagraphBreaks(CapNewlines(CleanAroundNewlines(
        CollapseHorizontal(Join(parts, <<" ">>)))))))

\* ---------------------------------------------------------------------------
\* The element tree (DOM).  dom is a sequence of nodes in document order; each
\* node names its parent (0 for the root), so the children of a node are the
\* later nodes naming it, in index order.
\* ---------------------------------------------------------------------------

NoAttrs == [a \in {} |-> <<>>]

TextNode(d) ==
    [type |-> "text", tag |-> "#text", cls |-> {}, id |-> <<>>, attrs |-> NoAttrs, data |-> d]

Element(tag, cls, id, attrs) ==
    [type |-> "element", tag |-> tag, cls |-> cls, id |-> id, attrs |-> attrs, data |-> <<>>]

hasAttribute(node, name) == name \in DOMAIN node.attrs

\* Element.getAttribute; null and "" are both falsy and every caller tests truthiness
getAttribute(node, name) == IF hasAttribute(node, name) THEN node.attrs[name] ELSE <<>>

childNodes(d, n) == SelectSeq([i \in 1..Len(d) |-> i], LAMBDA i : d[i].parent = n)

RECURSIVE IsDescendant(_, _, _)
IsDescendant(d, i, n) ==
    /\ d[i].parent # 0
    /\ \/ d[i].parent = n
       \/ IsDescendant(d, d[i].parent, n)

\* Element.querySelectorAll for a selector given as a predicate on nodes
querySelectorAll(d, n, Matches(_)) ==
    SelectSeq([i \in 1..Len(d) |-> i],
              LAMBDA i : IsDescendant(d, i, n) /\ d[i].type = "element" /\ Matches(d[i]))

\* Node.textContent
textContent(d, n) ==
    IF d[n].type = "text" THEN d[n].data
    ELSE Concat([k \in 1..Len(SelectSeq([i \in 1..Len(d) |-> i],
                        LAMBDA i : IsDescendant(d, i, n) /\ d[i].type = "text"))
                 |-> d[SelectSeq([i \in 1..Len(d) |-> i],
                        LAMBDA i : IsDescendant(d, i, n) /\ d[i].type = "text")[k]].data])

\* Element.previousElementSibling; 0 when there is none
previousElementSibling(d, n) ==
    LET sibs == {i \in 1..(n - 1) : d[i].parent = d[n].parent /\ d[i].type = "element"} IN
    IF d[n].parent = 0 \/ sibs = {} THEN 0
    ELSE CHOOSE i \in sibs : \A j \in sibs : j <= i

\* constants.ts
ankiButton == "autobotAnkiButton"
mjxContainer == "MJX-CONTAINER"
mjpage == "mjpage"
mjpageBlock == "mjpage__block"
freeResponsePrefix ==
    <<"f", "r", "e", "e", "R", "e", "s", "p", "o", "n", "s", "e", "T", "e", "x", "t", "b", "o", "x">>
choicesTableClass == "questionWidget-choicesTable"

\* ---------------------------------------------------------------------------
\* Math-source resolution
\* ---------------------------------------------------------------------------

NoSource == [type |-> "none", value |-> <<>>]

MATH_TEX == <<"m", "a", "t", "h", "/", "t", "e", "x">>
MATH_TEX_DISPLAY ==
    <<"m", "a", "t", "h", "/", "t", "e", "x", ";", " ", "m", "o", "d", "e", "=",
      "d", "i", "s", "p", "l", "a", "y">>

\* variant that takes the text of any preceding script element
ownTexSourceAnyScript(d, n) ==
    LET dataTex == getAttribute(d[n], "data-tex")
        dataMathML == getAttribute(d[n], "data-mathml")
        prev == previousElementSibling(d, n)
    IN  IF dataTex # <<>> THEN [type |-> "tex", value |-> dataTex]
        ELSE IF dataMathML # <<>> THEN [type |-> "mathml", value |-> dataMathML]
        ELSE IF prev # 0 /\ d[prev].tag = "SCRIPT" /\ textContent(d, prev) # <<>>
             THEN [type |-> "tex", value |-> textContent(d, prev)]
        ELSE NoSource

\* the container's own data-tex, then data-mathml, then the preceding math script
ownTexSource(d, n) ==
    LET dataTex == getAttribute(d[n], "data-tex")
        dataMathML == getAttribute(d[n], "data-mathml")
        prev == previousElementSibling(d, n)
    IN  IF dataTex # <<>> THEN [type |-> "tex", value |-> dataTex]
        ELSE IF dataMathML # <<>> THEN [type |-> "mathml", value |-> dataMathML]
        ELSE IF /\ prev # 0
                /\ d[prev].tag = "SCRIPT"
                /\ getAttribute(d[prev], "type") \in {MATH_TEX, MATH_TEX_DISPLAY}
                /\ textContent(d, prev) # <<>>
             THEN [type |-> "tex", value |-> textContent(d, prev)]
        ELSE NoSource

\* a resolver that looks at the container's own attributes before those of its
\* modern descendants
getTexSourceOwnFirst(d, n) ==
    LET mjxChildTex == querySelectorAll(d, n,
            LAMBDA e : e.tag = mjxContainer /\ hasAttribute(e, "data-tex"))
        mjxChildMathML == querySelectorAll(d, n,
            LAMBDA e : e.tag = mjxContainer /\ hasAttribute(e, "data-mathml"))
    IN  IF getAttribute(d[n], "data-tex") # <<>>
        THEN [type |-> "tex", value |-> getAttribute(d[n], "data-tex")]
        ELSE IF getAttribute(d[n], "data-mathml") # <<>>
        THEN [type |-> "mathml", value |-> getAttribute(d[n], "data-mathml")]
        ELSE IF mjpage \in d[n].cls /\ mjxChildTex # <<>>
        THEN [type |-> "tex", value |-> getAttribute(d[mjxChildTex[1]], "data-tex")]
        ELSE IF mjpage \in d[n].cls /\ mjxChildMathML # <<>>
        THEN [type |-> "mathml", value |-> getAttribute(d[mjxChildMathML[1]], "data-mathml")]
        ELSE ownTexSource(d, n)

getTexSource(d, n) ==
    LET mjxChildTex == querySelectorAll(d, n,
            LAMBDA e : e.tag = mjxContainer /\ hasAttribute(e, "data-tex"))
        mjxChildMathML == querySelectorAll(d, n,
            LAMBDA e : e.tag = mjxContainer /\ hasAttribute(e, "data-mathml"))
    IN  IF /\ mjpage \in d[n].cls
           /\ mjxChildTex # <<>>
           /\ getAttribute(d[mjxChildTex[1]], "data-tex") # <<>>
        THEN [type |-> "tex", value |-> getAttribute(d[mjxChildTex[1]], "data-tex")]
        ELSE IF /\ mjpage \in d[n].cls
                /\ mjxChildMathML # <<>>
                /\ getAttribute(d[mjxChildMathML[1]], "data-mathml") # <<>>
        THEN [type |-> "mathml", value |-> getAttribute(d[mjxChildMathML[1]], "data-mathml")]
        ELSE ownTexSource(d, n)

\* ---------------------------------------------------------------------------
\* Inline widget formatters
\* ---------------------------------------------------------------------------

BOXED_BLANK ==
    <<"\\", "(", "\\", "b", "o", "x", "e", "d", "{", "\\", "v", "p", "h", "a", "n", "t", "o", "m",
      "{", "X", "}", "\\", "q", "u", "a", "d", "}", "\\", ")">>
BLANK == <<"_", "_", "_", "_", "_", "_", "_", "_", "_">>
INLINE_OPEN == <<"\\", "(">>
INLINE_CLOSE == <<"\\", ")">>
BLOCK_OPEN == <<"\\", "[">>
BLOCK_CLOSE == <<"\\", "]">>
NLNL == <<"\n", "\n">>

ShortOptionLimit == 5

isMathJaxNode(node) == node.tag = mjxContainer \/ mjpage \in node.cls

\* variant that also takes an option of exactly five characters for short
formatOptionsInclusive(optionTexts, shortSep) ==
    IF optionTexts = <<>> THEN BLANK
    ELSE IF \A k \in 1..Len(optionTexts) : Len(optionTexts[k]) <= ShortOptionLimit
         THEN shortSep
         ELSE BLANK \o <<" ", "(">> \o Join(optionTexts, <<" ", "/", " ">>) \o <<")">>

\* opt1/opt2 inline when every option is short, else the blank with the options
formatOptions(optionTexts, shortSep) ==
    IF optionTexts = <<>> THEN BLANK
    ELSE IF \A k \in 1..Len(optionTexts) : Len(optionTexts[k]) < ShortOptionLimit
         THEN shortSep
         ELSE BLANK \o <<" ", "(">> \o Join(optionTexts, <<" ", "/", " ">>) \o <<")">>

\* the fragments one child of a .selectListOption contributes
optionChildParts(d, c) ==
    IF d[c].type = "text"
    THEN IF Trim(d[c].data) # <<>> THEN <<Trim(d[c].data)>> ELSE <<>>
    ELSE IF d[c].type # "element" THEN <<>>
    ELSE IF isMathJaxNode(d[c])
         THEN LET source == getTexSource(d, c) IN
              IF source.type = "mathml" THEN <<source.value>>
              ELSE IF source.type = "tex" THEN <<INLINE_OPEN \o source.value \o INLINE_CLOSE>>
              ELSE <<textContent(d, c)>>
         ELSE <<Trim(textContent(d, c))>>

optionText(d, opt) ==
    LET kids == childNodes(d, opt) IN
    Trim(Concat([k \in 1..Len(kids) |-> Concat(optionChildParts(d, kids[k]))]))

\* number of math children of the options that resolved to a source
optionMathCount(d, optionEls) ==
    Cardinality({c \in 1..Len(d) :
        /\ \E k \in 1..Len(optionEls) : d[c].parent = optionEls[k]
        /\ d[c].type = "element"
        /\ isMathJaxNode(d[c])
        /\ getTexSource(d, c).type # "none"})

extractSelectListContent(d, n) ==
    LET optionEls == querySelectorAll(d, n, LAMBDA e : "selectListOption" \in e.cls)
        optionTexts == SelectSeq([k \in 1..Len(optionEls) |-> optionText(d, optionEls[k])],
                                 LAMBDA s : s # <<>>)
    IN  [text |-> formatOptions(optionTexts, Join(optionTexts, <<"/">>)),
         math |-> optionMathCount(d, optionEls)]

\* the native <select> branch of walkNodes
nativeSelectContent(d, n) ==
    LET optionEls == querySelectorAll(d, n, LAMBDA e : e.tag = "OPTION")
        optionTexts == SelectSeq([k \in 1..Len(optionEls) |-> Trim(textContent(d, optionEls[k]))],
                                 LAMBDA s : s # <<>>)
    IN  formatOptions(optionTexts,
                      BLANK \o <<" ", "(">> \o Join(optionTexts, <<"/">>) \o <<")">>)

\* ---------------------------------------------------------------------------
\* Tree walker and block serializers
\* ---------------------------------------------------------------------------

IMG_OPEN == <<"{", "{", "I", "M", "G", "_">>
IMG_CLOSE == <<"}", "}">>
MATH_OPEN == <<"<", "m", "a", "t", "h">>
DISPLAY_BLOCK == <<"d", "i", "s", "p", "l", "a", "y", "=", "\"", "b", "l", "o", "c", "k", "\"">>
BLOCK == <<"b", "l", "o", "c", "k">>

\* variant of the block set without the line-break element
BlockTagsWithoutBr == {"P", "DIV", "H1", "H2", "H3", "H4"}

BlockTags == {"P", "DIV", "BR", "H1", "H2", "H3", "H4"}

CELL_CONFIG ==
    [blockMathFormat |-> "simple", handleLists |-> FALSE, handleBlockElements |-> FALSE,
     hasChoices |-> FALSE, labelFormat |-> "paren", skipChoicesTable |-> FALSE]

\* variant of the list-item configuration with block handling left on
LIST_ITEM_CONFIG_BLOCKS ==
    [blockMathFormat |-> "simple", handleLists |-> TRUE, handleBlockElements |-> TRUE,
     hasChoices |-> FALSE, labelFormat |-> "paren", skipChoicesTable |-> FALSE]

LIST_ITEM_CONFIG ==
    [blockMathFormat |-> "simple", handleLists |-> TRUE, handleBlockElements |-> FALSE,
     hasChoices |-> FALSE, labelFormat |-> "paren", skipChoicesTable |-> FALSE]

mainConfig(isChoicesTable, labelFormat) ==
    [blockMathFormat |-> "newlines", handleLists |-> TRUE, handleBlockElements |-> TRUE,
     hasChoices |-> isChoicesTable, labelFormat |-> labelFormat,
     skipChoicesTable |-> isChoicesTable]

EmptyWalk == [parts |-> <<>>, images |-> <<>>, math |-> 0]

push(st, s) == [st EXCEPT !.parts = Append(@, s)]

\* `{{IMG_${images.length}}}`
placeholderZero(k) == IMG_OPEN \o Dec(0) \o IMG_CLOSE
placeholder(k) == IMG_OPEN \o Dec(k) \o IMG_CLOSE

formatLabel(label, labelFormat) ==
    IF labelFormat = "dot" THEN label \o <<".">>
    ELSE IF labelFormat = "bracket" THEN <<"(">> \o label \o <<")">>
    ELSE label \o <<")">>

\* content.replace(/^["']|["']$/g, '')
stripQuotes(s) ==
    LET a == IF s # <<>> /\ s[1] \in {"\"", "'"} THEN Tail(s) ELSE s IN
    IF a # <<>> /\ a[Len(a)] \in {"\"", "'"} THEN SubSeq(a, 1, Len(a) - 1) ELSE a

lowerTag(tag) ==
    CASE tag = "TD" -> <<"t", "d">>
      [] tag = "TH" -> <<"t", "h">>
      [] tag = "OL" -> <<"o", "l">>
      [] tag = "UL" -> <<"u", "l">>

attrName(name) ==
    CASE name = "style" -> <<"s", "t", "y", "l", "e">>
      [] name = "rules" -> <<"r", "u", "l", "e", "s">>
      [] name = "cellpadding" -> <<"c", "e", "l", "l", "p", "a", "d", "d", "i", "n", "g">>
      [] name = "cellspacing" -> <<"c", "e", "l", "l", "s", "p", "a", "c", "i", "n", "g">>
      [] name = "border" -> <<"b", "o", "r", "d", "e", "r">>
      [] name = "align" -> <<"a", "l", "i", "g", "n">>
      [] name = "colspan" -> <<"c", "o", "l", "s", "p", "a", "n">>
      [] name = "rowspan" -> <<"r", "o", "w", "s", "p", "a", "n">>
      [] name = "valign" -> <<"v", "a", "l", "i", "g", "n">>
      [] name = "width" -> <<"w", "i", "d", "t", "h">>
      [] name = "bgcolor" -> <<"b", "g", "c", "o", "l", "o", "r">>

\* ` name="value"` for each listed attribute that is set, in list order
RECURSIVE attrString(_, _)
attrString(node, names) ==
    IF names = <<>> THEN <<>>
    ELSE (IF getAttribute(node, names[1]) # <<>>
          THEN <<" ">> \o attrName(names[1]) \o <<"=", "\"">>
               \o getAttribute(node, names[1]) \o <<"\"">>
          ELSE <<>>)
         \o attrString(node, Tail(names))

\* variant that injects border="1" into a table that has no border
buildTableAttrsDefaultBorder(table) ==
    attrString(table, <<"style", "rules", "cellpadding", "cellspacing", "border", "align">>)
        \o (IF getAttribute(table, "border") = <<>>
            THEN <<" ", "b", "o", "r", "d", "e", "r", "=", "\"", "1", "\"">>
            ELSE <<>>)

buildTableAttrs(table) ==
    attrString(table, <<"style", "rules", "cellpadding", "cellspacing", "border", "align">>)

buildCellAttrs(cell) ==
    attrString(cell, <<"style", "colspan", "rowspan", "align", "valign">>)

RECURSIVE walkNodes(_, _, _, _)
RECURSIVE walkAll(_, _, _, _)
RECURSIVE processTable(_, _, _)
RECURSIVE processRows(_, _, _, _)
RECURSIVE processCells(_, _, _, _)
RECURSIVE processList(_, _, _)
RECURSIVE processItems(_, _, _, _)

\* for (const child of nodes) walkNodes(child, parts, images, mathCountRef, config)
walkAll(d, nodes, st, config) ==
    IF nodes = <<>> THEN st
    ELSE walkAll(d, Tail(nodes), walkNodes(d, nodes[1], st, config), config)

\* the MathJax branch of walkNodes for a container without embedded selectLists
mathFragment(d, n, config) ==
    LET source == getTexSource(d, n)
        isBlock == getAttribute(d[n], "display") = BLOCK \/ mjpageBlock \in d[n].cls
    IN  IF source.type = "mathml"
        THEN IF isBlock /\ ~Includes(source.value, DISPLAY_BLOCK)
             THEN ReplaceFirst(source.value, MATH_OPEN, MATH_OPEN \o <<" ">> \o DISPLAY_BLOCK)
             ELSE source.value
        ELSE IF source.type = "tex"
        THEN IF isBlock
             THEN IF config.blockMathFormat = "newlines"
                  THEN NLNL \o BLOCK_OPEN \o source.value \o BLOCK_CLOSE \o NLNL
                  ELSE BLOCK_OPEN \o source.value \o BLOCK_CLOSE
             ELSE INLINE_OPEN \o source.value \o INLINE_CLOSE
        ELSE textContent(d, n)

walkNodes(d, n, st, config) ==
    LET node == d[n] IN
    IF node.type = "text"
    THEN IF Trim(node.data) # <<>> THEN push(st, Trim(node.data)) ELSE st
    ELSE IF node.type # "element" THEN st
    ELSE IF node.tag \in {"STYLE", "SCRIPT"} THEN st
    ELSE IF ankiButton \in node.cls THEN st
    ELSE IF node.tag = "MJX-ASSISTIVE-MML" THEN st
    ELSE IF StartsWith(node.id, freeResponsePrefix) THEN push(st, BOXED_BLANK)
    ELSE IF "selectList" \in node.cls
    THEN LET r == extractSelectListContent(d, n) IN
         [push(st, r.text) EXCEPT !.math = @ + r.math]
    ELSE IF node.tag = "SELECT" THEN push(st, nativeSelectContent(d, n))
    ELSE IF /\ config.hasChoices
            /\ node.tag = "TR"
            /\ Len(querySelectorAll(d, n, LAMBDA e : e.tag = "TD")) >= 2
    THEN LET cells == querySelectorAll(d, n, LAMBDA e : e.tag = "TD")
             label == Trim(textContent(d, cells[1]))
         IN  push(walkAll(d, Tail(cells),
                          push(st, formatLabel(label, config.labelFormat) \o <<" ">>),
                          config),
                  <<"\n">>)
    ELSE IF node.tag = "IMG"
    THEN IF getAttribute(node, "src") # <<>>
         THEN [push(st, placeholder(Len(st.images))) EXCEPT
                  !.images = Append(@, [placeholder |-> placeholder(Len(st.images)),
                                        src |-> getAttribute(node, "src"),
                                        node |-> n])]
         ELSE st
    ELSE IF node.tag = "MJX-C"
    THEN LET content == getAttribute(node, "::before") IN
         IF content # <<>> /\ content # <<"n", "o", "n", "e">>
               /\ content # <<"n", "o", "r", "m", "a", "l">> /\ stripQuotes(content) # <<>>
         THEN push(st, stripQuotes(content))
         ELSE st
    ELSE IF isMathJaxNode(node) /\ querySelectorAll(d, n, LAMBDA e : "selectList" \in e.cls) # <<>>
    THEN LET mjxMath == SelectSeq(childNodes(d, n), LAMBDA i : d[i].tag = "MJX-MATH") IN
         IF mjxMath # <<>> THEN walkAll(d, childNodes(d, mjxMath[1]), st, config) ELSE st
    ELSE IF isMathJaxNode(node)
    THEN [push(st, mathFragment(d, n, config)) EXCEPT
             !.math = IF getTexSource(d, n).type # "none" THEN @ + 1 ELSE @]
    ELSE IF node.tag = "TABLE" /\ ~config.skipChoicesTable
    THEN processTable(d, n, st)
    ELSE IF config.handleLists /\ node.tag \in {"OL", "UL"}
    THEN processList(d, n, st)
    ELSE LET after == walkAll(d, childNodes(d, n), st, config) IN
         IF config.handleBlockElements /\ node.tag \in BlockTags /\ after.parts # <<>>
         THEN push(after, NLNL)
         ELSE after

\* extractCellContent: the cell walked under CELL_CONFIG into its own parts
extractCellContent(d, cell, st) ==
    LET w == walkNodes(d, cell, [st EXCEPT !.parts = <<>>], CELL_CONFIG) IN
    [text |-> Trim(Join(w.parts, <<" ">>)), st |-> [w EXCEPT !.parts = st.parts]]

\* the cells of one row; acc.html is the markup so far
processCells(d, cells, acc, st) ==
    IF cells = <<>> THEN [html |-> acc, st |-> st]
    ELSE LET c == extractCellContent(d, cells[1], st)
             tag == lowerTag(d[cells[1]].tag)
         IN  processCells(d, Tail(cells),
                 acc \o <<"<">> \o tag \o buildCellAttrs(d[cells[1]]) \o <<">">>
                     \o c.text \o <<"<", "/">> \o tag \o <<">">>,
                 c.st)

processRows(d, rows, acc, st) ==
    IF rows = <<>> THEN [html |-> acc, st |-> st]
    ELSE LET rowStyle == getAttribute(d[rows[1]], "style")
             open == IF rowStyle # <<>>
                     THEN <<"<", "t", "r", " ", "s", "t", "y", "l", "e", "=", "\"">>
                          \o rowStyle \o <<"\"", ">">>
                     ELSE <<"<", "t", "r", ">">>
             cells == SelectSeq(childNodes(d, rows[1]), LAMBDA i : d[i].tag \in {"TD", "TH"})
             r == processCells(d, cells, acc \o open, st)
         IN  processRows(d, Tail(rows), r.html \o <<"<", "/", "t", "r", ">">>, r.st)

\* processTable, with the returned markup pushed as one fragment by the caller
processTable(d, table, st) ==
    LET rows == SelectSeq([i \in 1..Len(d) |-> i],
                    LAMBDA i : /\ d[i].tag = "TR"
                               /\ d[i].parent # 0
                               /\ \/ d[i].parent = table
                                  \/ /\ d[d[i].parent].tag \in {"TBODY", "THEAD"}
                                     /\ d[d[i].parent].parent = table)
        r == processRows(d, rows,
                 <<"<", "t", "a", "b", "l", "e">> \o buildTableAttrs(d[table]) \o <<">">>,
                 [st EXCEPT !.parts = <<>>])
    IN  [r.st EXCEPT !.parts = Append(st.parts, r.html \o <<"<", "/", "t", "a", "b", "l", "e", ">">>)]

\* extractListItemContent: the item walked under LIST_ITEM_CONFIG into its own parts
extractListItemContent(d, item, st) ==
    LET w == walkNodes(d, item, [st EXCEPT !.parts = <<>>], LIST_ITEM_CONFIG) IN
    [text |-> Trim(Join(w.parts, <<" ">>)), st |-> [w EXCEPT !.parts = st.parts]]

processItems(d, items, acc, st) ==
    IF items = <<>> THEN [html |-> acc, st |-> st]
    ELSE LET c == extractListItemContent(d, items[1], st) IN
         processItems(d, Tail(items),
             acc \o <<"<", "l", "i", ">">> \o c.text \o <<"<", "/", "l", "i", ">">>,
             c.st)

processList(d, list, st) ==
    LET tag == lowerTag(d[list].tag)
        items == SelectSeq(childNodes(d, list), LAMBDA i : d[i].tag = "LI")
        r == processItems(d, items, <<"<">> \o tag \o <<">">>, [st EXCEPT !.parts = <<>>])
    IN  [r.st EXCEPT !.parts = Append(st.parts, r.html \o <<"<", "/">> \o tag \o <<">">>)]

extractContent(d, el, labelFormat) ==
    LET isChoicesTable == choicesTableClass \in d[el].cls
        w == walkNodes(d, el, EmptyWalk, mainConfig(isChoicesTable, labelFormat))
    IN  [content |-> normalize(w.parts), images |-> w.images, math |-> w.math, parts |-> w.parts]

\* ---------------------------------------------------------------------------
\* Pages: trees grown node by node in document order.  A new node hangs under
\* the last node or one of its ancestors, so indices are document order.
\* ---------------------------------------------------------------------------

U1 == <<"u">>
U2 == <<"v">>
A1 == <<"a">>
SECRET == <<"z">>
SOLVE == <<"S", "o", "l", "v", "e">>
SOLVE_SP == <<"S", "o", "l", "v", "e", " ">>
X2 == <<"x", "^", "2">>
Y1 == <<"y">>
B1 == <<"b">>
ABCD == <<"a", "b", "c", "d">>
ABCDE == <<"a", "b", "c", "d", "e">>
SPACE == <<" ">>
ONE == <<"1">>
TWO == <<"2">>
CSS == <<"c", ":", "0">>
MML == <<"<", "m", "a", "t", "h", ">", "m", "<", "/", "m", "a", "t", "h", ">">>
GLYPH == <<"\"", "x", "\"">>
ADD == <<"A", "d", "d">>

Node(tpl, p) ==
    [type |-> tpl.type, tag |-> tpl.tag, cls |-> tpl.cls, id |-> tpl.id,
     attrs |-> tpl.attrs, data |-> tpl.data, parent |-> p]

\* HTML content model: what a node may hold
Holds(node) ==
    IF node.type # "element" THEN "nothing"
    ELSE IF node.tag \in {"IMG", "BR", "MJX-C"} THEN "nothing"
    ELSE IF node.tag \in {"STYLE", "SCRIPT"} THEN "text"
    ELSE IF ankiButton \in node.cls THEN "label"
    ELSE IF node.tag = mjxContainer THEN "math"
    ELSE IF node.tag = "MJX-MATH" THEN "glyphs"
    ELSE IF StartsWith(node.id, freeResponsePrefix) THEN "answer"
    ELSE IF node.tag = "TABLE" THEN "rows"
    ELSE IF node.tag \in {"TBODY", "THEAD", "TFOOT"} THEN "sectionRows"
    ELSE IF node.tag = "TR" THEN "cells"
    ELSE IF node.tag \in {"OL", "UL"} THEN "items"
    ELSE IF node.tag = "SELECT" THEN "options"
    ELSE IF node.tag = "OPTION" THEN "text"
    ELSE "flow"

\* HTML content model: where a node may sit
FitsIn(tpl, holds) ==
    IF tpl.type = "text" /\ tpl.data = SECRET THEN holds = "answer"
    ELSE IF tpl.type = "text" /\ tpl.data = ADD THEN holds = "label"
    ELSE IF tpl.type = "text" THEN holds \in {"flow", "text"}
    ELSE IF tpl.tag = "IMG" THEN holds \in {"flow", "answer", "label"}
    ELSE IF tpl.tag = "MJX-MATH" THEN holds = "math"
    ELSE IF tpl.tag = "MJX-C" THEN holds = "glyphs"
    ELSE IF "selectList" \in tpl.cls THEN holds \in {"flow", "glyphs"}
    ELSE IF tpl.tag = "TR" THEN holds \in {"rows", "sectionRows"}
    ELSE IF tpl.tag \in {"TBODY", "THEAD", "TFOOT"} THEN holds = "rows"
    ELSE IF tpl.tag \in {"TD", "TH"} THEN holds = "cells"
    ELSE IF tpl.tag = "LI" THEN holds = "items"
    ELSE IF tpl.tag = "OPTION" THEN holds = "options"
    ELSE holds = "flow"

RECURSIVE OpenPath(_, _)
\* the last node and its ancestors
OpenPath(d, n) == IF n = 0 THEN {} ELSE {n} \cup OpenPath(d, d[n].parent)

Div == Element("DIV", {}, <<>>, NoAttrs)
Para == Element("P", {}, <<>>, NoAttrs)
Span == Element("SPAN", {}, <<>>, NoAttrs)
Br == Element("BR", {}, <<>>, NoAttrs)
Img(src) == Element("IMG", {}, <<>>, "src" :> src)
ImgNoSrc == Element("IMG", {}, <<>>, NoAttrs)
Table == Element("TABLE", {}, <<>>, NoAttrs)
ChoicesTable == Element("TABLE", {choicesTableClass}, <<>>, NoAttrs)
Tr == Element("TR", {}, <<>>, NoAttrs)
Td == Element("TD", {}, <<>>, NoAttrs)
Ul == Element("UL", {}, <<>>, NoAttrs)
Li == Element("LI", {}, <<>>, NoAttrs)
FreeResponse == Element("DIV", {}, freeResponsePrefix \o <<"-", "1">>, NoAttrs)
Mjx(attrs) == Element(mjxContainer, {}, <<>>, attrs)
MjPage(attrs) == Element("SPAN", {mjpage}, <<>>, attrs)
MathScript == Element("SCRIPT", {}, <<>>, "type" :> MATH_TEX)
PlainScript == Element("SCRIPT", {}, <<>>, NoAttrs)
TableWith(attrs) == Element("TABLE", {}, <<>>, attrs)
TrWith(attrs) == Element("TR", {}, <<>>, attrs)
CellWith(tag, attrs) == Element(tag, {}, <<>>, attrs)
Tbody == Element("TBODY", {}, <<>>, NoAttrs)
Tfoot == Element("TFOOT", {}, <<>>, NoAttrs)
SelectList == Element("SPAN", {"selectList"}, <<>>, NoAttrs)
SelectListOption == Element("DIV", {"selectListOption"}, <<>>, NoAttrs)
Select == Element("SELECT", {}, <<>>, NoAttrs)
Option == Element("OPTION", {}, <<>>, NoAttrs)
AnkiButton == Element("DIV", {ankiButton}, <<>>, NoAttrs)
MjxMath == Element("MJX-MATH", {}, <<>>, NoAttrs)
MjxC(content) == Element("MJX-C", {}, <<>>, "::before" :> content)

MaxNodesChoices == 8
MaxNodesImages == 6
MaxNodesFree == 6
MaxNodesMath == 4
MaxNodesParagraph == 4
MaxNodesTable == 4
MaxNodesSelect == 5
MaxNodesFillIn == 5
MaxNodesSections == 5
MaxNodesBlocks == 4
MaxNodesNested == 5
MaxNodesOwnUi == 6
MaxNodesPlaceholders == 8

\* the node kinds of each family of pages, its root and its size limit
Kinds(pal) ==
    CASE pal = "choices" -> {Tr, Td, Table, Img(U1), TextNode(A1)}
      [] pal = "images" -> {TextNode(A1), Img(U1), Img(U2), ImgNoSrc, Table, Tr, Td, Ul, Li}
      [] pal = "free" -> {Tr, Td, FreeResponse, TextNode(SECRET), TextNode(A1), Img(U1)}
      [] pal = "math" -> {Mjx(NoAttrs), Mjx("data-tex" :> X2), Mjx("data-mathml" :> MML),
                          MjPage(NoAttrs), MjPage("data-tex" :> Y1), MjPage("data-mathml" :> MML),
                          MjPage(("data-tex" :> Y1) @@ ("data-mathml" :> MML)),
                          MathScript, PlainScript, TextNode(X2)}
      [] pal = "paragraph" -> {Div, Para, TextNode(SOLVE_SP), TextNode(A1),
                               Mjx("data-tex" :> X2), Mjx(("data-tex" :> X2) @@ ("display" :> BLOCK))}
      [] pal = "select" -> {SelectListOption, Option, TextNode(A1), TextNode(ABCD),
                            TextNode(ABCDE), TextNode(SPACE), Mjx("data-tex" :> Y1)}
      [] pal = "fillin" -> {Mjx(NoAttrs), MjxMath, MjxC(GLYPH), SelectList, SelectListOption,
                            TextNode(B1)}
      [] pal = "sections" -> {Table, Tbody, Tfoot, Tr, Td, Ul, Li, TextNode(TWO)}
      [] pal = "blocks" -> {Para, Span, Br, Ul, Li, TextNode(A1)}
      [] pal = "nested" -> {Table, Tr, Td, Ul, Li, Para, Br, TextNode(A1),
                            Mjx(("data-tex" :> X2) @@ ("display" :> BLOCK))}
      [] pal = "ownui" -> {AnkiButton, TextNode(ADD), Img(U1), Tr, Td, Li, SelectListOption}
      [] pal = "placeholders" -> {Tr, Td, Table, Li, Img(U1)}
      [] pal = "table" -> {Tbody, Tr, TrWith(("style" :> CSS) @@ ("align" :> ONE)), Td,
                           CellWith("TD", ("colspan" :> TWO) @@ ("width" :> ONE)),
                           CellWith("TH", ("style" :> CSS) @@ ("valign" :> ONE)
                                              @@ ("rowspan" :> <<>>)),
                           TextNode(A1)}

Root(pal) ==
    CASE pal = "choices" -> ChoicesTable
      [] pal = "images" -> Div
      [] pal = "free" -> ChoicesTable
      [] pal = "math" -> Div
      [] pal = "paragraph" -> Div
      [] pal = "table" -> Table
      [] pal = "select" -> Select

MaxNodes(pal) ==
    CASE pal = "choices" -> MaxNodesChoices
      [] pal = "images" -> MaxNodesImages
      [] pal = "free" -> MaxNodesFree
      [] pal = "math" -> MaxNodesMath
      [] pal = "paragraph" -> MaxNodesParagraph
      [] pal = "table" -> MaxNodesTable
      [] pal = "select" -> MaxNodesSelect
      [] pal = "fillin" -> MaxNodesFillIn
      [] pal = "sections" -> MaxNodesSections
      [] pal = "blocks" -> MaxNodesBlocks
      [] pal = "nested" -> MaxNodesNested
      [] pal = "ownui" -> MaxNodesOwnUi
      [] pal = "placeholders" -> MaxNodesPlaceholders

AppendNode(tpl, p) ==
    /\ phase = "build"
    /\ Len(dom) < MaxNodes(palette)
    /\ tpl \in Kinds(palette)
    /\ p \in OpenPath(dom, Len(dom))
    /\ FitsIn(tpl, Holds(dom[p]))
    /\ dom' = Append(dom, Node(tpl, p))
    /\ UNCHANGED <<palette, phase, result, options, normVars, matVars, uiVars, otherVars>>

LabelFormats == {"paren", "dot", "bracket"}

DefaultOptions == [labelFormat |-> "paren"]

NoResult == [content |-> <<>>, images |-> <<>>, math |-> 0, parts |-> <<>>]

ExtractContent(labelFormat) ==
    /\ phase = "build"
    /\ phase' = "extracted"
    /\ options' = [labelFormat |-> labelFormat]
    /\ result' = extractContent(dom, 1, labelFormat)
    /\ UNCHANGED <<dom, palette, normVars, matVars, uiVars, otherVars>>

NoMessage == [action |-> "none", filename |-> <<>>]

NormIdle == frags = <<>> /\ npc = "idle" /\ normOut = <<>> /\ normAgain = <<>>

MatIdle == mat = [pc |-> "idle"] /\ media = {} /\ chan = NoMessage /\ resp = "none"

NoStep == [type |-> "none", classes |-> {}]

CapIdle == blocks = <<>> /\ caps = <<>>

CardIdle == card = [pc |-> "idle"] /\ sent = <<>>

RpcIdle == rpc = [pc |-> "idle"]

OtherIdle == CapIdle /\ CardIdle /\ RpcIdle

UiIdle ==
    /\ step = NoStep
    /\ isAdded = FALSE
    /\ status = ""
    /\ clicks = <<>>
    /\ notes = 0

InitWalk(pal) ==
    /\ palette = pal
    /\ dom = <<Node(Root(pal), 0)>>
    /\ phase = "build"
    /\ result = NoResult
    /\ options = DefaultOptions
    /\ NormIdle
    /\ MatIdle
    /\ UiIdle
    /\ OtherIdle

\* extraction handed one of the given elements as its root
InitFrom(pal, roots) ==
    /\ palette = pal
    /\ dom \in {<<Node(r, 0)>> : r \in roots}
    /\ phase = "build"
    /\ result = NoResult
    /\ options = DefaultOptions
    /\ NormIdle
    /\ MatIdle
    /\ UiIdle
    /\ OtherIdle

NextWalk ==
    \/ \E tpl \in Kinds(palette), p \in 1..Len(dom) : AppendNode(tpl, p)
    \/ \E labelFormat \in LabelFormats : ExtractContent(labelFormat)

SpecChoices == InitWalk("choices") /\ [][NextWalk]_vars
SpecImages == InitWalk("images") /\ [][NextWalk]_vars
SpecFree == InitWalk("free") /\ [][NextWalk]_vars
SpecMath == InitWalk("math") /\ [][NextWalk]_vars
SpecParagraph == InitWalk("paragraph") /\ [][NextWalk]_vars

\* C1: the refs of one extractContent call carry {{IMG_0}} .. {{IMG_{N-1}}}, the
\* k-th ref belongs to the k-th image element with a source in document order
\* (so no image element has two refs), and no placeholder is a substring of
\* another.
PlaceholdersInOrder ==
    phase = "extracted" =>
        /\ \A k \in 1..Len(result.images) :
              /\ result.images[k].placeholder = IMG_OPEN \o Dec(k - 1) \o IMG_CLOSE
              /\ dom[result.images[k].node].tag = "IMG"
              /\ result.images[k].src = getAttribute(dom[result.images[k].node], "src")
        /\ \A j, k \in 1..Len(result.images) :
              j < k => result.images[j].node < result.images[k].node
        /\ \A j, k \in 1..Len(result.images) :
              j # k => ~Includes(result.images[j].placeholder, result.images[k].placeholder)

\* the modern containers below n that carry a non-empty attribute of that name
ModernWith(d, n, name) ==
    {i \in 1..Len(d) : /\ IsDescendant(d, i, n)
                       /\ d[i].tag = mjxContainer
                       /\ getAttribute(d[i], name) # <<>>}

First(S) == CHOOSE i \in S : \A j \in S : i <= j

Last(S) == CHOOSE i \in S : \A j \in S : j <= i

\* the text of the math script that is the element sibling right before n
PrecedingMathScript(d, n) ==
    LET before == {i \in 1..(n - 1) : d[i].parent = d[n].parent /\ d[i].type = "element"} IN
    IF /\ d[n].parent # 0
       /\ before # {}
       /\ d[Last(before)].tag = "SCRIPT"
       /\ hasAttribute(d[Last(before)], "type")
       /\ d[Last(before)].attrs["type"] \in {MATH_TEX, MATH_TEX_DISPLAY}
    THEN textContent(d, Last(before))
    ELSE <<>>

\* the six sources of a container in the stated order of preference
ExpectedSource(d, n) ==
    LET legacy == mjpage \in d[n].cls IN
    IF legacy /\ ModernWith(d, n, "data-tex") # {}
    THEN [type |-> "tex", value |-> d[First(ModernWith(d, n, "data-tex"))].attrs["data-tex"]]
    ELSE IF legacy /\ ModernWith(d, n, "data-mathml") # {}
    THEN [type |-> "mathml",
          value |-> d[First(ModernWith(d, n, "data-mathml"))].attrs["data-mathml"]]
    ELSE IF hasAttribute(d[n], "data-tex")
    THEN [type |-> "tex", value |-> d[n].attrs["data-tex"]]
    ELSE IF hasAttribute(d[n], "data-mathml")
    THEN [type |-> "mathml", value |-> d[n].attrs["data-mathml"]]
    ELSE IF PrecedingMathScript(d, n) # <<>>
    THEN [type |-> "tex", value |-> PrecedingMathScript(d, n)]
    ELSE [type |-> "none", value |-> <<>>]

\* C8: math-source resolution takes the first applicable source: a modern
\* descendant's symbolic source, then a modern descendant's markup-math (both
\* for a legacy container only), then the container's own symbolic source, its
\* own markup-math, the preceding math script's text, and else nothing.
TexPriority ==
    \A n \in 1..Len(dom) :
        (dom[n].type = "element" /\ isMathJaxNode(dom[n]))
            => getTexSource(dom, n) = ExpectedSource(dom, n)

\* a legacy container carrying its own symbolic source wraps a modern child
\* carrying a different one, and resolves to the child's
TexPriorityWitness ==
    \E n \in 1..Len(dom) :
        /\ mjpage \in dom[n].cls
        /\ getAttribute(dom[n], "data-tex") = Y1
        /\ ModernWith(dom, n, "data-tex") # {}
        /\ getTexSource(dom, n) = [type |-> "tex", value |-> X2]
        /\ phase = "extracted"
        /\ Includes(result.content, INLINE_OPEN \o X2 \o INLINE_CLOSE)
        /\ ~Includes(result.content, Y1)

\* the elements whose id starts with the reserved prefix
FreeResponseElements(d) ==
    {i \in 1..Len(d) : d[i].type = "element" /\ StartsWith(d[i].id, freeResponsePrefix)}

\* C9: a free-response box renders as the boxed blank and gives the output no
\* image ref and none of the text typed into it, wherever it sits.
FreeResponseOpaque ==
    phase = "extracted" =>
        /\ ~Includes(result.content, SECRET)
        /\ \A k \in 1..Len(result.images) :
              \A f \in FreeResponseElements(dom) : ~IsDescendant(dom, result.images[k].node, f)
        /\ Occurrences(result.content, BOXED_BLANK) = Cardinality(FreeResponseElements(dom))

\* <div><p>Solve <mjx-container data-tex="x^2"/></p></div>
SolveParagraph ==
    <<Node(Div, 0), Node(Para, 1), Node(TextNode(SOLVE_SP), 2), Node(Mjx("data-tex" :> X2), 2)>>

\* C10: <div><p>Solve <mjx-container data-tex="x^2"/></p></div> extracts to
\* "Solve \(x^2\)" with nothing after it.
FinalParagraphBreakTrimmed ==
    (phase = "extracted" /\ dom = SolveParagraph)
        => result.content = SOLVE \o <<" ">> \o INLINE_OPEN \o X2 \o INLINE_CLOSE

\* ---------------------------------------------------------------------------
\* The normalizer on arbitrary fragment sequences
\* ---------------------------------------------------------------------------

MaxLen == 6

Alphabet == {" ", "\t", "\n", "a"}

RECURSIVE TotalLen(_)
TotalLen(fs) == IF fs = <<>> THEN 0 ELSE Len(fs[1]) + 1 + TotalLen(Tail(fs))

NewFragment ==
    /\ npc = "build"
    /\ TotalLen(frags) < MaxLen
    /\ frags' = Append(frags, <<>>)
    /\ UNCHANGED <<npc, normOut, normAgain, walkVars, matVars, uiVars, otherVars>>

AppendChar(c) ==
    /\ npc = "build"
    /\ frags # <<>>
    /\ TotalLen(frags) < MaxLen
    /\ frags' = [frags EXCEPT ![Len(frags)] = Append(@, c)]
    /\ UNCHANGED <<npc, normOut, normAgain, walkVars, matVars, uiVars, otherVars>>

Normalize ==
    /\ npc = "build"
    /\ normOut' = normalize(frags)
    /\ npc' = "normalized"
    /\ UNCHANGED <<frags, normAgain, walkVars, matVars, uiVars, otherVars>>

Renormalize ==
    /\ npc = "normalized"
    /\ normAgain' = normalize(<<normOut>>)
    /\ npc' = "renormalized"
    /\ UNCHANGED <<frags, normOut, walkVars, matVars, uiVars, otherVars>>

WalkIdle ==
    /\ dom = <<>> /\ palette = "none" /\ phase = "idle"
    /\ result = NoResult /\ options = DefaultOptions

InitNorm ==
    /\ frags = <<>>
    /\ npc = "build"
    /\ normOut = <<>>
    /\ normAgain = <<>>
    /\ WalkIdle
    /\ MatIdle
    /\ UiIdle
    /\ OtherIdle

NextNorm ==
    \/ NewFragment
    \/ \E c \in Alphabet : AppendChar(c)
    \/ Normalize
    \/ Renormalize

SpecNorm == InitNorm /\ [][NextNorm]_vars

\* C7: normalizing the one-element sequence holding the normalizer's own output
\* returns that output unchanged.
NormalizerIdempotent == npc = "renormalized" => normAgain = normOut

\* an input with tabs, doubled spaces and enough newlines for every rewriting
\* step to act, normalized twice
NormalizerIdempotentWitness ==
    /\ npc = "renormalized"
    /\ Includes(Join(frags, <<" ">>), <<"\n", "\n", "\n">>)
    /\ Includes(Join(frags, <<" ">>), <<"\t">>)
    /\ Includes(normOut, BR \o BR)
    /\ normAgain = normOut

\* ---------------------------------------------------------------------------
\* Image materializer: processExtractedContent, the background handler for
\* storeMediaFile and the note store's answer to store-blob
\* ---------------------------------------------------------------------------

IMG_TAG_OPEN == <<"<", "i", "m", "g", " ", "s", "r", "c", "=", "\"">>
IMG_TAG_CLOSE == <<"\"", ">">>
MISSING_IMAGE == <<"[", "I", "m", "a", "g", "e", "]">>

MaxImages == 3
MaxTimestamp == 1

\* variant of the filename that leaves the counter out
imageFilenameNoCounter(timestamp, counter) ==
    <<"a", "u", "t", "o", "b", "o", "t", "-">> \o Dec(timestamp)
        \o <<"-", "i", "m", "g">> \o <<".", "p", "n", "g">>

\* `autobot-${timestamp}-img${imageCounterRef.value++}.png`
imageFilename(timestamp, counter) ==
    <<"a", "u", "t", "o", "b", "o", "t", "-">> \o Dec(timestamp)
        \o <<"-", "i", "m", "g">> \o Dec(counter) \o <<".", "p", "n", "g">>

imgTag(filename) == IMG_TAG_OPEN \o filename \o IMG_TAG_CLOSE

\* a page region with n images, each with its own URL, between pieces of text
RECURSIVE ImageRun(_)
ImageRun(n) ==
    IF n = 0 THEN <<Node(Div, 0)>>
    ELSE ImageRun(n - 1) \o <<Node(Img(U1 \o Dec(n)), 1), Node(TextNode(A1), 1)>>

\* the responses of the note store to one request
AnkiOutcomes == {"ok", "empty", "error", "network"}

\* invoke: throws on a failed fetch, an empty body or an error field
invokeThrows(outcome) == outcome \in {"network", "empty", "error"}

\* .then(sendResponse).catch(err => sendResponse({ error: err.message }))
backgroundResponse(outcome) == IF invokeThrows(outcome) THEN "error" ELSE "result"

\* variant of the loop step that passes over the following image
nextImageSkipping(m) ==
    [m EXCEPT !.i = @ + 2,
              !.pc = IF m.i + 2 > Len(result.images) THEN "done" ELSE "fetch"]

\* the loop moves to the next ref, or ends
nextImage(m) ==
    [m EXCEPT !.i = @ + 1,
              !.pc = IF m.i + 1 > Len(result.images) THEN "done" ELSE "fetch"]

\* a catch block that marks the image and rethrows
imageFailedRethrow(m) ==
    [m EXCEPT !.processedContent = ReplaceFirst(@, result.images[m.i].placeholder, MISSING_IMAGE),
              !.subst[m.i] = Append(@, "marker"),
              !.threw = TRUE,
              !.pc = "done"]

\* the catch block of the loop body
imageFailed(m) ==
    nextImage([m EXCEPT
        !.processedContent = ReplaceFirst(@, result.images[m.i].placeholder, MISSING_IMAGE),
        !.subst[m.i] = Append(@, "marker")])

\* the loop body after the storeMediaFile message has been answered
imageStored(m) ==
    nextImage([m EXCEPT
        !.processedContent = ReplaceFirst(@, result.images[m.i].placeholder, imgTag(m.filename[m.i])),
        !.subst[m.i] = Append(@, "img")])

InitMat ==
    /\ \E n \in 0..MaxImages : dom = ImageRun(n)
    /\ palette = "none"
    /\ phase = "extracted"
    /\ options = DefaultOptions
    /\ result = extractContent(dom, 1, options.labelFormat)
    /\ \E dark \in BOOLEAN, c \in 0..1, ts \in 0..MaxTimestamp :
          mat = [pc |-> IF result.images = <<>> THEN "done" ELSE "fetch",
                 i |-> 1,
                 processedContent |-> result.content,
                 fixDarkMode |-> dark,
                 timestamp |-> ts,
                 counter |-> c,
                 filename |-> [k \in 1..Len(result.images) |-> <<>>],
                 fetched |-> [k \in 1..Len(result.images) |-> "none"],
                 recolored |-> [k \in 1..Len(result.images) |-> "none"],
                 stored |-> [k \in 1..Len(result.images) |-> "none"],
                 subst |-> [k \in 1..Len(result.images) |-> <<>>],
                 threw |-> FALSE]
    /\ media = {}
    /\ chan = NoMessage
    /\ resp = "none"
    /\ NormIdle
    /\ UiIdle
    /\ OtherIdle

\* await fetchImageAsBase64(img.src)
FetchImage(ok) ==
    /\ mat.pc = "fetch"
    /\ mat' = IF ok
              THEN [mat EXCEPT !.fetched[mat.i] = "ok",
                               !.pc = IF mat.fixDarkMode THEN "recolor" ELSE "store"]
              ELSE imageFailed([mat EXCEPT !.fetched[mat.i] = "fail"])
    /\ UNCHANGED <<media, chan, resp, walkVars, normVars, uiVars, otherVars>>

\* await addWhiteBackground(base64Data)
Recolor(ok) ==
    /\ mat.pc = "recolor"
    /\ mat' = IF ok
              THEN [mat EXCEPT !.recolored[mat.i] = "ok", !.pc = "store"]
              ELSE imageFailed([mat EXCEPT !.recolored[mat.i] = "fail"])
    /\ UNCHANGED <<media, chan, resp, walkVars, normVars, uiVars, otherVars>>

\* browser.runtime.sendMessage({ action: 'storeMediaFile', filename, data })
SendStoreMediaFile ==
    /\ mat.pc = "store"
    /\ chan = NoMessage
    /\ chan' = [action |-> "storeMediaFile",
                filename |-> imageFilename(mat.timestamp, mat.counter)]
    /\ mat' = [mat EXCEPT !.filename[mat.i] = imageFilename(mat.timestamp, mat.counter),
                          !.counter = @ + 1,
                          !.pc = "await"]
    /\ UNCHANGED <<media, resp, walkVars, normVars, uiVars, otherVars>>

\* browser.runtime.sendMessage rejects: no listener took the message
SendRejected ==
    /\ mat.pc = "store"
    /\ chan = NoMessage
    /\ mat' = imageFailed([mat EXCEPT
                  !.filename[mat.i] = imageFilename(mat.timestamp, mat.counter),
                  !.counter = @ + 1,
                  !.stored[mat.i] = "rejected"])
    /\ UNCHANGED <<media, chan, resp, walkVars, normVars, uiVars, otherVars>>

\* the background listener: storeMediaFile(msg.filename, msg.data) through invoke
BackgroundStoreMediaFile(outcome) ==
    /\ chan.action = "storeMediaFile"
    /\ media' = IF outcome = "ok" THEN media \cup {chan.filename} ELSE media
    /\ resp' = backgroundResponse(outcome)
    /\ chan' = NoMessage
    /\ mat' = [mat EXCEPT !.stored[mat.i] = outcome]
    /\ UNCHANGED <<walkVars, normVars, uiVars, otherVars>>

\* the awaited sendMessage settles with whatever the background answered
StoreAnswered ==
    /\ mat.pc = "await"
    /\ resp # "none"
    /\ resp' = "none"
    /\ mat' = imageStored(mat)
    /\ UNCHANGED <<media, chan, walkVars, normVars, uiVars, otherVars>>

NextMat ==
    \/ \E ok \in BOOLEAN : FetchImage(ok)
    \/ \E ok \in BOOLEAN : Recolor(ok)
    \/ SendStoreMediaFile
    \/ SendRejected
    \/ \E outcome \in AnkiOutcomes : BackgroundStoreMediaFile(outcome)
    \/ StoreAnswered

SpecMat == InitMat /\ [][NextMat]_vars

Refs == 1..Len(result.images)

\* C2: when processExtractedContent returns, no placeholder is left, each ref
\* was substituted exactly once, and by an image reference to a stored filename
\* or by the missing-image marker.
EveryPlaceholderReplacedOnce ==
    mat.pc = "done" =>
        \A k \in Refs :
            /\ ~Includes(mat.processedContent, result.images[k].placeholder)
            /\ Len(mat.subst[k]) = 1
            /\ \/ mat.subst[k] = <<"marker">>
               \/ /\ mat.subst[k] = <<"img">>
                  /\ Occurrences(mat.processedContent, imgTag(mat.filename[k])) = 1
                  /\ mat.filename[k] \in media

\* C3: processExtractedContent never throws; an image whose fetch fails becomes
\* the missing-image marker; every image that is fetched, recolored and stored
\* without failure becomes a reference to its stored file, whatever happened to
\* the images before and after it.
FetchFailureIsolated ==
    /\ mat.pc # "idle" => ~mat.threw
    /\ mat.pc = "done" =>
          /\ \A k \in Refs :
                /\ ~Includes(mat.processedContent, result.images[k].placeholder)
                /\ mat.fetched[k] = "fail" => mat.subst[k] = <<"marker">>
                /\ (mat.fetched[k] = "ok" /\ mat.recolored[k] # "fail" /\ mat.stored[k] = "ok")
                      => /\ mat.subst[k] = <<"img">>
                         /\ Occurrences(mat.processedContent, imgTag(mat.filename[k])) = 1
                         /\ mat.filename[k] \in media
          /\ Occurrences(mat.processedContent, MISSING_IMAGE)
                = Cardinality({k \in Refs : mat.subst[k] = <<"marker">>})

\* three images, the second fetch failed, the first and third are stored
FetchFailureIsolatedWitness ==
    /\ mat.pc = "done"
    /\ Len(result.images) = 3
    /\ mat.fetched = <<"ok", "fail", "ok">>
    /\ mat.stored = <<"ok", "none", "ok">>
    /\ mat.subst = <<<<"img">>, <<"marker">>, <<"img">>>>

\* C4: an image whose blob the note store failed to store becomes the
\* missing-image marker, not a reference to the unstored filename.
StoreFailureYieldsMarker ==
    mat.pc = "done" =>
        \A k \in Refs :
            invokeThrows(mat.stored[k]) =>
                /\ mat.subst[k] = <<"marker">>
                /\ ~Includes(mat.processedContent, imgTag(mat.filename[k]))

\* ---------------------------------------------------------------------------
\* The add/remove control of a step: onclick of the step-name link and of the
\* "Add to Anki" button, addCard, removeNote and the background handlers
\* ---------------------------------------------------------------------------

MaxClicks == 2
MaxBlobs == 1

SELECTORS ==
    [exampleFront |-> "exampleQuestion",
     exampleBack |-> "exampleExplanation",
     questionFront |-> "questionWidget-text",
     questionChoices |-> "questionWidget-choicesTable",
     questionBack |-> "questionWidget-explanation"]

\* the classes getFrontBackElements looks up for a step of the given type
PartsOf(type) ==
    IF type = "example" THEN {SELECTORS.exampleFront, SELECTORS.exampleBack}
    ELSE {SELECTORS.questionFront, SELECTORS.questionBack}

\* front and back as found by step.querySelector (TRUE: an element, FALSE: null)
getFrontBackElements(s, type) ==
    IF type = "example"
    THEN [front |-> SELECTORS.exampleFront \in s.classes,
          back |-> SELECTORS.exampleBack \in s.classes]
    ELSE IF type = "question"
    THEN [front |-> SELECTORS.questionFront \in s.classes,
          back |-> SELECTORS.questionBack \in s.classes]
    ELSE [front |-> FALSE, back |-> FALSE]

\* a check that looks at the front only
elementsFoundFrontOnly(s) == getFrontBackElements(s, s.type).front

\* the negation of: if (!front || !back) throw new Error("Elements not found")
elementsFound(s) ==
    getFrontBackElements(s, s.type).front /\ getFrontBackElements(s, s.type).back

NewClick(kind, pc) ==
    [kind |-> kind, pc |-> pc, storeCalls |-> 0, createCalls |-> 0, create |-> "none",
     missing |-> FALSE, final |-> "", flagIntact |-> TRUE]

\* the catch block of the handler: updateStatus("Error")
Failed(a) ==
    /\ status' = "Error"
    /\ clicks' = [clicks EXCEPT ![a].pc = "done", ![a].final = "Error"]
    /\ UNCHANGED isAdded

\* an assignment to isAdded, seen by every invocation still in flight
FlagWritten(cs) ==
    [b \in DOMAIN cs |-> IF cs[b].pc = "done" THEN cs[b] ELSE [cs[b] EXCEPT !.flagIntact = FALSE]]

\* after the existence check on load: findNotes answered, or failed, for the marker
InitUI ==
    /\ \E type \in {"example", "question"} :
          \E cs \in SUBSET PartsOf(type) : step = [type |-> type, classes |-> cs]
    /\ notes \in 0..1
    /\ isAdded \in (IF notes > 0 THEN BOOLEAN ELSE {FALSE})
    /\ status = IF isAdded THEN "Added" ELSE ""
    /\ clicks = <<>>
    /\ WalkIdle
    /\ NormIdle
    /\ MatIdle
    /\ OtherIdle

\* the page shows or hides a part of the step
Rerender ==
    /\ \E c \in PartsOf(step.type) :
          step' = [step EXCEPT !.classes =
                      IF c \in @ THEN @ \ {c} ELSE @ \cup {c}]
    /\ UNCHANGED <<isAdded, status, clicks, notes, walkVars, normVars, matVars, otherVars>>

\* onclick up to its first await
Click ==
    /\ Len(clicks) < MaxClicks
    /\ IF isAdded
       THEN /\ clicks' = Append(clicks, NewClick("remove", "frame"))
            /\ status' = "Removing..."
       ELSE /\ clicks' = Append(clicks, NewClick("add", "settings"))
            /\ status' = status
    /\ UNCHANGED <<step, isAdded, notes, walkVars, normVars, matVars, otherVars>>

\* getAllSettings resolved: updateStatus("Adding...") and wait two frames
SettingsLoaded(a) ==
    /\ clicks[a].pc = "settings"
    /\ status' = "Adding..."
    /\ clicks' = [clicks EXCEPT ![a].pc = "frame"]
    /\ UNCHANGED <<step, isAdded, notes, walkVars, normVars, matVars, otherVars>>

\* the frames passed on the add path: look the elements up and enter addCard
FramePassedAdd(a) ==
    /\ clicks[a].pc = "frame"
    /\ clicks[a].kind = "add"
    /\ IF elementsFound(step)
       THEN /\ clicks' = [clicks EXCEPT ![a].pc = "addCard"]
            /\ UNCHANGED <<isAdded, status>>
       ELSE /\ status' = "Error"
            /\ clicks' = [clicks EXCEPT ![a].pc = "done", ![a].final = "Error",
                                        ![a].missing = TRUE]
            /\ UNCHANGED isAdded
    /\ UNCHANGED <<step, notes, walkVars, normVars, matVars, otherVars>>

\* captureElement or addWhiteBackground rejects outside the per-image try block
CaptureFails(a) ==
    /\ clicks[a].pc = "addCard"
    /\ Failed(a)
    /\ UNCHANGED <<step, notes, walkVars, normVars, matVars, otherVars>>

\* one storeMediaFile message of addCard, answered by the background handler;
\* the answer, a result or { error }, is not looked at
StoreBlob(a, outcome) ==
    /\ clicks[a].pc = "addCard"
    /\ clicks[a].storeCalls < MaxBlobs
    /\ backgroundResponse(outcome) \in {"result", "error"}
    /\ clicks' = [clicks EXCEPT ![a].storeCalls = @ + 1]
    /\ UNCHANGED <<step, isAdded, status, notes, walkVars, normVars, matVars, otherVars>>

\* the addTextNote message, answered by the background handler
CreateNote(a, outcome) ==
    /\ clicks[a].pc = "addCard"
    /\ notes' = IF invokeThrows(outcome) THEN notes ELSE notes + 1
    /\ clicks' = [clicks EXCEPT ![a].createCalls = @ + 1,
                                ![a].create = backgroundResponse(outcome),
                                ![a].pc = "created"]
    /\ UNCHANGED <<step, isAdded, status, walkVars, normVars, matVars, otherVars>>

\* the addTextNote message is rejected by the runtime
CreateRejected(a) ==
    /\ clicks[a].pc = "addCard"
    /\ status' = "Error"
    /\ clicks' = [clicks EXCEPT ![a].createCalls = @ + 1, ![a].create = "rejected",
                                ![a].pc = "done", ![a].final = "Error"]
    /\ UNCHANGED <<step, isAdded, notes, walkVars, normVars, matVars, otherVars>>

\* addCard returned: isAdded = true; updateStatus("Added")
AddReturned(a) ==
    /\ clicks[a].pc = "created"
    /\ isAdded' = TRUE
    /\ status' = "Added"
    /\ clicks' = FlagWritten([clicks EXCEPT ![a].pc = "done", ![a].final = "Added"])
    /\ UNCHANGED <<step, notes, walkVars, normVars, matVars, otherVars>>

\* the frames passed on the remove path: removeNote sends findNotes
FramePassedRemove(a) ==
    /\ clicks[a].pc = "frame"
    /\ clicks[a].kind = "remove"
    /\ clicks' = [clicks EXCEPT ![a].pc = "find"]
    /\ UNCHANGED <<step, isAdded, status, notes, walkVars, normVars, matVars, otherVars>>

\* removeNote returned: isAdded = false; updateStatus("")
Removed(a) ==
    /\ isAdded' = FALSE
    /\ status' = ""
    /\ clicks' = FlagWritten([clicks EXCEPT ![a].pc = "done", ![a].final = ""])

\* findNotes answered: noteIds?.length is falsy for no ids and for { error }
FindNotes(a, outcome) ==
    /\ clicks[a].pc = "find"
    /\ IF invokeThrows(outcome) \/ notes = 0
       THEN Removed(a)
       ELSE /\ clicks' = [clicks EXCEPT ![a].pc = "delete"]
            /\ UNCHANGED <<isAdded, status>>
    /\ UNCHANGED <<step, notes, walkVars, normVars, matVars, otherVars>>

\* deleteNotes answered, removeNote returns
DeleteNotes(a, outcome) ==
    /\ clicks[a].pc = "delete"
    /\ notes' = IF invokeThrows(outcome) THEN notes ELSE 0
    /\ Removed(a)
    /\ UNCHANGED <<step, walkVars, normVars, matVars, otherVars>>

\* a findNotes or deleteNotes message of removeNote is rejected by the runtime
RemoveRejected(a) ==
    /\ clicks[a].pc \in {"find", "delete"}
    /\ Failed(a)
    /\ UNCHANGED <<step, notes, walkVars, normVars, matVars, otherVars>>

NextUI ==
    \/ Rerender
    \/ Click
    \/ \E a \in DOMAIN clicks : SettingsLoaded(a)
    \/ \E a \in DOMAIN clicks : FramePassedAdd(a)
    \/ \E a \in DOMAIN clicks : CaptureFails(a)
    \/ \E a \in DOMAIN clicks : \E outcome \in AnkiOutcomes : StoreBlob(a, outcome)
    \/ \E a \in DOMAIN clicks : \E outcome \in AnkiOutcomes : CreateNote(a, outcome)
    \/ \E a \in DOMAIN clicks : CreateRejected(a)
    \/ \E a \in DOMAIN clicks : AddReturned(a)
    \/ \E a \in DOMAIN clicks : FramePassedRemove(a)
    \/ \E a \in DOMAIN clicks : \E outcome \in AnkiOutcomes : FindNotes(a, outcome)
    \/ \E a \in DOMAIN clicks : \E outcome \in AnkiOutcomes : DeleteNotes(a, outcome)
    \/ \E a \in DOMAIN clicks : RemoveRejected(a)

SpecUI == InitUI /\ [][NextUI]_vars

\* C29: a click on a control while an add started from the same control is
\* still in flight starts no second card creation: no create-note call is
\* issued for the control's marker while another add of the control, which
\* has issued its own create-note call, has not finished.
NoDuplicateAdd ==
    [][\A b \in DOMAIN clicks :
          clicks'[b].createCalls > clicks[b].createCalls
              => ~\E a \in DOMAIN clicks :
                     /\ a # b
                     /\ clicks[a].kind = "add"
                     /\ clicks[a].pc # "done"
                     /\ clicks[a].createCalls > 0]_vars

\* C5: an add whose create-note call failed (the background answered with an
\* error) ends with the control showing 'Error' and the added flag not set by
\* it, and it issued one create-note call only.
CreateFailureShowsError ==
    \A a \in DOMAIN clicks :
        /\ clicks[a].createCalls <= 1
        /\ (clicks[a].pc = "done" /\ clicks[a].create = "error")
              => clicks[a].final = "Error"

DirectCells(d, r) == SelectSeq(childNodes(d, r), LAMBDA i : d[i].tag = "TD")

\* the three label styles
LabelStyle(label, labelFormat) ==
    CASE labelFormat = "dot" -> label \o <<".">>
      [] labelFormat = "bracket" -> <<"(">> \o label \o <<")">>
      [] OTHER -> label \o <<")">>

\* the fragments of a run of choice rows: per row the styled label, the
\* walked content of the cells after the first, and a line separator
RECURSIVE ChoiceRows(_, _, _, _)
ChoiceRows(d, rows, st, labelFormat) ==
    IF rows = <<>> THEN st
    ELSE LET cells == DirectCells(d, rows[1])
             label == LabelStyle(Trim(textContent(d, cells[1])), labelFormat)
             walked == walkAll(d, Tail(cells), push(st, label \o <<" ">>),
                               mainConfig(TRUE, labelFormat))
         IN  ChoiceRows(d, Tail(rows), push(walked, <<"\n">>), labelFormat)

\* a choices table whose rows all have at least two cells
ChoicesRoot ==
    /\ phase = "extracted"
    /\ dom[1].tag = "TABLE"
    /\ choicesTableClass \in dom[1].cls
    /\ childNodes(dom, 1) # <<>>
    /\ \A i \in 1..Len(childNodes(dom, 1)) :
           LET r == childNodes(dom, 1)[i]
           IN  dom[r].tag = "TR" /\ Len(DirectCells(dom, r)) >= 2

\* C11: when the extraction root is a choices table, every row with at least
\* two cells yields its first cell's trimmed text as a label in the selected
\* style, then the walked content of the remaining cells, then one line
\* separator; the root is not serialized as a generic table.
ChoiceRowsLabelled ==
    ChoicesRoot =>
        /\ result.parts = ChoiceRows(dom, childNodes(dom, 1), EmptyWalk,
                                     options.labelFormat).parts
        /\ ~StartsWith(result.content, <<"<", "t", "a", "b", "l", "e">>)

\* ---------------------------------------------------------------------------
\* Table serialization
\* ---------------------------------------------------------------------------

\* the tables extraction starts from: no attributes, allow-listed attributes,
\* attributes outside the allow-list, and an attribute with an empty value
TableRoots ==
    {Table,
     TableWith(("border" :> ONE) @@ ("width" :> TWO)),
     TableWith(("style" :> CSS) @@ ("rules" :> ONE) @@ ("cellpadding" :> TWO)
                   @@ ("cellspacing" :> <<>>) @@ ("align" :> ONE) @@ ("bgcolor" :> ONE))}

\* <table><tr><td>a</td><th>b</th></tr><tr><td>b</td><td>a</td></tr></table>
TwoByTwo ==
    <<Node(Table, 0),
      Node(Tr, 1), Node(Td, 2), Node(TextNode(A1), 3),
                   Node(CellWith("TH", NoAttrs), 2), Node(TextNode(B1), 5),
      Node(Tr, 1), Node(Td, 7), Node(TextNode(B1), 8),
                   Node(Td, 7), Node(TextNode(A1), 10)>>

InitTable ==
    /\ palette = "table"
    /\ dom \in {<<Node(r, 0)>> : r \in TableRoots} \cup {TwoByTwo}
    /\ phase = "build"
    /\ result = NoResult
    /\ options = DefaultOptions
    /\ NormIdle
    /\ MatIdle
    /\ UiIdle
    /\ OtherIdle

SpecTable == InitTable /\ [][NextWalk]_vars

TableAllow == {"style", "rules", "cellpadding", "cellspacing", "border", "align"}
RowAllow == {"style"}
CellAllow == {"style", "colspan", "rowspan", "align", "valign"}
AttrNames == TableAllow \cup CellAllow \cup {"width", "bgcolor"}

AllowList(tag) ==
    CASE tag = "TABLE" -> TableAllow
      [] tag = "TR" -> RowAllow
      [] OTHER -> CellAllow

\* the elements of the page that the serialization opens a tag for, in
\* document order: the table, its rows (direct or in a body or head
\* section), their cells
Serialized(d) ==
    SelectSeq([i \in 1..Len(d) |-> i], LAMBDA i : d[i].tag \in {"TABLE", "TR", "TD", "TH"})

\* the opening tags of a markup string, in order, without their angle brackets
OpenTags(s) ==
    LET opens == SelectSeq([i \in 1..Len(s) |-> i],
                           LAMBDA i : s[i] = "<" /\ i < Len(s) /\ s[i + 1] # "/")
        close(i) == CHOOSE j \in i..Len(s) :
                        s[j] = ">" /\ \A k \in i..(j - 1) : s[k] # ">"
    IN  [n \in 1..Len(opens) |-> SubSeq(s, opens[n] + 1, close(opens[n]) - 1)]

TagName(tag) ==
    CASE tag = "TABLE" -> <<"t", "a", "b", "l", "e">>
      [] tag = "TR" -> <<"t", "r">>
      [] tag = "TD" -> <<"t", "d">>
      [] tag = "TH" -> <<"t", "h">>

Contains(s, sub) == \E i \in 1..Len(s) : MatchAt(s, sub, i)

AttrOpen(name) == <<" ">> \o attrName(name) \o <<"=", "\"">>

\* an opening tag carries only allow-listed attributes of its element, each
\* with the element's value
OnlyOwnAllowed(tag, node) ==
    /\ StartsWith(tag, TagName(node.tag))
    /\ \A name \in AttrNames :
           Contains(tag, AttrOpen(name))
               => /\ name \in AllowList(node.tag)
                  /\ hasAttribute(node, name)
                  /\ Contains(tag, AttrOpen(name) \o node.attrs[name] \o <<"\"">>)
    /\ Occurrences(tag, <<"=", "\"">>)
           = Cardinality({name \in AttrNames : Contains(tag, AttrOpen(name))})

TwoByTwoMarkup ==
    <<"<", "t", "a", "b", "l", "e", ">",
        "<", "t", "r", ">",
            "<", "t", "d", ">", "a", "<", "/", "t", "d", ">",
            "<", "t", "h", ">", "b", "<", "/", "t", "h", ">",
        "<", "/", "t", "r", ">",
        "<", "t", "r", ">",
            "<", "t", "d", ">", "b", "<", "/", "t", "d", ">",
            "<", "t", "d", ">", "a", "<", "/", "t", "d", ">",
        "<", "/", "t", "r", ">",
     "<", "/", "t", "a", "b", "l", "e", ">">>

\* C12: a serialized table carries, on its table, row and cell tags, only
\* attributes that the source element has and that are in the allow-list of
\* its kind (table: style, rules, cellpadding, cellspacing, border, align;
\* row: style; cell: style, colspan, rowspan, align, valign), with the source
\* values; a 2x2 table without attributes serializes to bare table, row and
\* cell tags with rows and cells in document order.
TableAttributesPreserved ==
    (phase = "extracted" /\ palette = "table")
        => LET tags == OpenTags(result.content)
               els == Serialized(dom)
           IN  /\ Len(tags) = Len(els)
               /\ \A n \in 1..Len(tags) : OnlyOwnAllowed(tags[n], dom[els[n]])
               /\ (dom = TwoByTwo => result.content = TwoByTwoMarkup)

\* a table with an allow-listed and a non-allow-listed attribute, a row with
\* a non-allow-listed attribute and a cell with both kinds, serialized
TableAttributesWitness ==
    /\ phase = "extracted"
    /\ palette = "table"
    /\ hasAttribute(dom[1], "border")
    /\ hasAttribute(dom[1], "width")
    /\ \E r, c \in 1..Len(dom) :
           /\ dom[r].tag = "TR" /\ hasAttribute(dom[r], "align")
           /\ dom[c].tag = "TD" /\ dom[c].parent = r /\ hasAttribute(dom[c], "width")
    /\ Includes(result.content, <<"<", "t", "a", "b", "l", "e", " ", "b", "o", "r", "d", "e", "r",
                                  "=", "\"", "1", "\"", ">">>)
    /\ Includes(result.content, <<"<", "t", "d", " ", "c", "o", "l", "s", "p", "a", "n",
                                  "=", "\"", "2", "\"", ">">>)

\* the 2x2 table without attributes, serialized
TwoByTwoWitness == phase = "extracted" /\ dom = TwoByTwo /\ result.content = TwoByTwoMarkup

\* ---------------------------------------------------------------------------
\* Dropdown selection lists and native selects
\* ---------------------------------------------------------------------------

InitSelect ==
    /\ palette = "select"
    /\ dom \in {<<Node(SelectList, 0)>>, <<Node(Select, 0)>>}
    /\ phase = "build"
    /\ result = NoResult
    /\ options = DefaultOptions
    /\ NormIdle
    /\ MatIdle
    /\ UiIdle
    /\ OtherIdle

SpecSelect == InitSelect /\ [][NextWalk]_vars

\* the blank alone for no options; the options joined with '/' when every
\* one is shorter than five characters; else the blank and the options
\* joined with ' / ' in parentheses
DropdownText(texts) ==
    IF Len(texts) = 0 THEN <<"_", "_", "_", "_", "_", "_", "_", "_", "_">>
    ELSE IF \E k \in 1..Len(texts) : Len(texts[k]) >= 5
         THEN <<"_", "_", "_", "_", "_", "_", "_", "_", "_", " ", "(">>
              \o Join(texts, <<" ", "/", " ">>) \o <<")">>
         ELSE Join(texts, <<"/">>)

\* the non-empty option texts of the selection list at the root
SelectListTexts ==
    LET opts == SelectSeq([i \in 1..Len(dom) |-> i],
                          LAMBDA i : "selectListOption" \in dom[i].cls)
    IN  SelectSeq([k \in 1..Len(opts) |-> optionText(dom, opts[k])], LAMBDA t : t # <<>>)

\* C13: a dropdown selection list with no non-empty option renders as the
\* blank; with every option shorter than 5 characters as the options joined
\* with '/', without a blank; otherwise as the blank followed by the options
\* joined with ' / ' in parentheses.
DropdownFormatted ==
    (phase = "extracted" /\ "selectList" \in dom[1].cls)
        => result.content = DropdownText(SelectListTexts)

\* a list of a four-character and a five-character option, rendered with the blank
DropdownFormattedWitness ==
    /\ phase = "extracted"
    /\ "selectList" \in dom[1].cls
    /\ SelectListTexts = <<ABCD, ABCDE>>
    /\ result.content = BLANK \o <<" ", "(">> \o ABCD \o <<" ", "/", " ">> \o ABCDE \o <<")">>

\* a list of two options shorter than five characters, rendered inline
DropdownInlineWitness ==
    /\ phase = "extracted"
    /\ "selectList" \in dom[1].cls
    /\ SelectListTexts = <<A1, ABCD>>
    /\ result.content = A1 \o <<"/">> \o ABCD

\* the non-empty option texts of the native select at the root
NativeSelectTexts ==
    LET opts == SelectSeq([i \in 1..Len(dom) |-> i], LAMBDA i : dom[i].tag = "OPTION")
    IN  SelectSeq([k \in 1..Len(opts) |-> Trim(textContent(dom, opts[k]))], LAMBDA t : t # <<>>)

\* C14: a native select renders as the text the dropdown formatter gives for
\* the same option texts, the all-short case joined with '/' inline included.
NativeSelectAsDropdown ==
    (phase = "extracted" /\ dom[1].tag = "SELECT")
        => result.content = DropdownText(NativeSelectTexts)

\* ---------------------------------------------------------------------------
\* captureElement: free-response answers hidden for the screenshot
\* ---------------------------------------------------------------------------

MaxBlocks == 2
MaxCaptures == 2

\* what a free-response block may hold before a capture
BlockContents == {<<>>, A1, SECRET}

\* hideFreeResponseAnswers: the content of every block saved, then cleared
hideFreeResponseAnswers(bl) ==
    [savedContent |-> bl, cleared |-> [i \in 1..Len(bl) |-> <<>>]]

\* the function hideFreeResponseAnswers returns
restoreAnswers(bl, savedContent) == [i \in 1..Len(bl) |-> savedContent[i]]

InitCapture ==
    /\ blocks \in UNION {[1..n -> BlockContents] : n \in 0..MaxBlocks}
    /\ caps = <<>>
    /\ WalkIdle
    /\ NormIdle
    /\ MatIdle
    /\ UiIdle
    /\ CardIdle
    /\ RpcIdle

\* captureElement up to its await; before records the content at the call
CaptureElement ==
    /\ Len(caps) < MaxCaptures
    /\ LET h == hideFreeResponseAnswers(blocks) IN
       /\ blocks' = h.cleared
       /\ caps' = Append(caps, [pc |-> "shooting", savedContent |-> h.savedContent,
                                before |-> blocks])
    /\ UNCHANGED <<baseVars, cardVars, rpc>>

\* domToPng resolves: the finally block runs, the call resolves
DomToPngResolves(c) ==
    /\ caps[c].pc = "shooting"
    /\ blocks' = restoreAnswers(blocks, caps[c].savedContent)
    /\ caps' = [caps EXCEPT ![c].pc = "resolved"]
    /\ UNCHANGED <<baseVars, cardVars, rpc>>

\* domToPng throws: the finally block runs, the call rejects
DomToPngRejects(c) ==
    /\ caps[c].pc = "shooting"
    /\ blocks' = restoreAnswers(blocks, caps[c].savedContent)
    /\ caps' = [caps EXCEPT ![c].pc = "rejected"]
    /\ UNCHANGED <<baseVars, cardVars, rpc>>

NextCapture ==
    \/ CaptureElement
    \/ \E c \in DOMAIN caps : DomToPngResolves(c)
    \/ \E c \in DOMAIN caps : DomToPngRejects(c)

SpecCapture == InitCapture /\ [][NextCapture]_vars

\* C15: when a captureElement call settles, by a resolved or a thrown
\* screenshot, every free-response block under the element holds the content
\* it had before the call; the content of a block is cleared only between
\* the save and the restore of a call, so a step that empties a block leaves
\* some call between its save and its restore.
ScopedRestore ==
    [][/\ \A c \in DOMAIN caps :
              (caps[c].pc = "shooting" /\ caps'[c].pc # "shooting")
                  => blocks' = caps[c].before
       /\ (\E b \in DOMAIN blocks : blocks[b] # <<>> /\ blocks'[b] = <<>>)
              => \E c \in DOMAIN caps' : caps'[c].pc = "shooting"]_vars

\* C28: when two captureElement calls on elements sharing free-response blocks
\* overlap (the second starts while the first is between its save and its
\* restore), then once both have settled every block holds the content it had
\* before the first call started.
OverlappingCapturesRestore ==
    (/\ Len(caps) = 2
     /\ caps[2].before = hideFreeResponseAnswers(caps[1].before).cleared
     /\ \A c \in DOMAIN caps : caps[c].pc # "shooting")
        => blocks = caps[1].before

\* ---------------------------------------------------------------------------
\* addCard: the fields and messages of one card
\* ---------------------------------------------------------------------------

MaxCardImages == 2

LESSON == <<"l">>
STEP_NAME == <<"s">>

\* `<!-- autobot:${lesson}:${stepName} -->`
Marker(lesson, stepName) ==
    <<"<", "!", "-", "-", " ", "a", "u", "t", "o", "b", "o", "t", ":">> \o lesson \o <<":">> \o stepName \o <<" ", "-", "-", ">">>

\* variant of the query without the field scope
findNotesQueryAnyField(marker) == <<"\"">> \o marker \o <<"\"">>

\* `"Front:${marker}"`
findNotesQuery(marker) == <<"\"", "F", "r", "o", "n", "t", ":">> \o marker \o <<"\"">>

\* `autobot-${timestamp}-${label}.png`
captureFilename(timestamp, label) ==
    <<"a", "u", "t", "o", "b", "o", "t", "-">> \o Dec(timestamp) \o <<"-">> \o label \o <<".", "p", "n", "g">>

LabelText(region) ==
    CASE region = "graphic" -> <<"g", "r", "a", "p", "h", "i", "c">>
      [] region = "front" -> <<"f", "r", "o", "n", "t">>
      [] region = "choices" -> <<"c", "h", "o", "i", "c", "e", "s">>
      [] region = "back" -> <<"b", "a", "c", "k">>

Regions == {"front", "choices", "back"}

\* a choices table of n rows: a label cell and a cell with an image
RECURSIVE ChoicesRun(_)
ChoicesRun(n) ==
    IF n = 0 THEN <<Node(ChoicesTable, 0)>>
    ELSE LET d == ChoicesRun(n - 1) IN
         d \o <<Node(Tr, 1), Node(Td, Len(d) + 1), Node(TextNode(A1), Len(d) + 2),
                Node(Td, Len(d) + 1), Node(Img(U2 \o Dec(n)), Len(d) + 4)>>

\* the element of a region, holding n images
RegionPage(region, n) == IF region = "choices" THEN ChoicesRun(n) ELSE ImageRun(n)

\* what may happen to one image: its fetch fails, its recolor fails, its
\* store message is rejected, or the message is answered
ImageOutcomes(fixDarkMode) ==
    IF fixDarkMode THEN {"fetch", "recolor", "rejected", "stored"}
    ELSE {"fetch", "rejected", "stored"}

\* processExtractedContent run to its end: the processed content, the counter
\* after it, and the filenames of its storeMediaFile messages
RECURSIVE processImages(_, _, _, _, _)
processImages(images, k, timestamp, outcomes, acc) ==
    IF k > Len(images) THEN acc
    ELSE LET filename == imageFilename(timestamp, acc.counter) IN
         processImages(images, k + 1, timestamp, outcomes,
             IF outcomes[k] \in {"fetch", "recolor"}
             THEN [acc EXCEPT !.content = ReplaceFirst(@, images[k].placeholder, MISSING_IMAGE)]
             ELSE IF outcomes[k] = "rejected"
             THEN [content |-> ReplaceFirst(acc.content, images[k].placeholder, MISSING_IMAGE),
                   counter |-> acc.counter + 1,
                   filenames |-> Append(acc.filenames, filename)]
             ELSE [content |-> ReplaceFirst(acc.content, images[k].placeholder, imgTag(filename)),
                   counter |-> acc.counter + 1,
                   filenames |-> Append(acc.filenames, filename)])

processExtractedContent(res, timestamp, counter, outcomes) ==
    processImages(res.images, 1, timestamp, outcomes,
                  [content |-> res.content, counter |-> counter, filenames |-> <<>>])

StoreMessage(filename) == [action |-> "storeMediaFile", filename |-> filename]

StoreMessages(filenames) == [k \in 1..Len(filenames) |-> StoreMessage(filenames[k])]

\* how many images the front, the choices and the back hold
ImageCounts ==
    {n \in [Regions -> 0..MaxCardImages] : n["front"] + n["choices"] + n["back"] <= MaxCardImages}

\* the control has been injected (its existence check sent) and addCard entered
InitCard ==
    /\ \E mode \in {"text", "image"}, includeChoices \in BOOLEAN,
          labelFormat \in LabelFormats, fixDarkMode \in BOOLEAN,
          graphic \in BOOLEAN, choices \in BOOLEAN, prepare \in BOOLEAN,
          n \in ImageCounts, ts \in {MaxTimestamp} :
          /\ card = [pc |-> IF graphic THEN "graphic" ELSE "front",
                     marker |-> Marker(LESSON, STEP_NAME),
                     mode |-> mode, includeChoices |-> includeChoices,
                     labelFormat |-> labelFormat, fixDarkMode |-> fixDarkMode,
                     graphic |-> graphic, choices |-> choices, n |-> n,
                     timestamp |-> ts, counter |-> 0, extracted |-> FALSE,
                     prepare |-> prepare, restores |-> 0,
                     thrown |-> "none", caught |-> FALSE,
                     front |-> Marker(LESSON, STEP_NAME), back |-> <<>>]
          /\ sent = <<[action |-> "findNotes", query |-> findNotesQuery(Marker(LESSON, STEP_NAME))]>>
    /\ WalkIdle
    /\ NormIdle
    /\ MatIdle
    /\ UiIdle
    /\ CapIdle
    /\ RpcIdle

\* a restore that runs after the try block only, not in a finally block
restoreOnReturn(c) ==
    IF c.prepare /\ c.pc = "added" THEN [c EXCEPT !.restores = @ + 1] ELSE c

\* the finally block of addCard: restore?.()
restore(c) == IF c.prepare THEN [c EXCEPT !.restores = @ + 1] ELSE c

\* a step of addCard rejects: the rejection leaves addCard through the finally block
throws(c, what) == restore([c EXCEPT !.pc = "failed", !.thrown = what])

\* the region after the given one
nextRegion(c, region) ==
    CASE region = "graphic" -> "front"
      [] region = "front" -> IF c.includeChoices /\ c.choices THEN "choices" ELSE "back"
      [] region = "choices" -> "back"
      [] region = "back" -> "send"

\* text mode: await captureGraphicText(graphic, fixDarkMode, timestamp)
CaptureGraphicText(outcome) ==
    /\ card.mode = "text"
    /\ card.pc = "graphic"
    /\ outcome \in {"capture", "rejected", "stored"}
                       \cup (IF card.fixDarkMode THEN {"recolor"} ELSE {})
    /\ LET filename == captureFilename(card.timestamp, LabelText("graphic")) IN
       IF outcome \in {"capture", "recolor"}
       THEN card' = throws(card, outcome) /\ sent' = sent
       ELSE /\ sent' = Append(sent, StoreMessage(filename))
            /\ card' = IF outcome = "rejected" THEN throws(card, "store")
                       ELSE [card EXCEPT !.pc = nextRegion(card, "graphic"),
                                         !.front = @ \o imgTag(filename) \o BR]
    /\ UNCHANGED <<baseVars, capVars, rpc>>

\* text mode: extractContent(front), extractContent(choices, { labelFormat }) or
\* extractContent(back)
ExtractRegion ==
    /\ card.mode = "text"
    /\ card.pc \in Regions
    /\ ~card.extracted
    /\ dom' = RegionPage(card.pc, card.n[card.pc])
    /\ options' = IF card.pc = "choices" THEN [labelFormat |-> card.labelFormat]
                  ELSE DefaultOptions
    /\ result' = extractContent(dom', 1, options'.labelFormat)
    /\ phase' = "extracted"
    /\ card' = [card EXCEPT !.extracted = TRUE]
    /\ UNCHANGED <<palette, sent, normVars, matVars, uiVars, capVars, rpc>>

\* text mode: await processExtractedContent of the region's result
ProcessRegion(outcomes) ==
    /\ card.mode = "text"
    /\ card.pc \in Regions
    /\ card.extracted
    /\ DOMAIN outcomes = 1..Len(result.images)
    /\ LET p == processExtractedContent(result, card.timestamp, card.counter, outcomes) IN
       /\ sent' = sent \o StoreMessages(p.filenames)
       /\ card' = [card EXCEPT
              !.pc = nextRegion(card, card.pc),
              !.extracted = FALSE,
              !.caught = @ \/ \E k \in DOMAIN outcomes : outcomes[k] = "rejected",
              !.counter = p.counter,
              !.front = IF card.pc = "back" THEN @ ELSE @ \o p.content,
              !.back = IF card.pc = "back" THEN p.content ELSE @]
    /\ UNCHANGED <<baseVars, capVars, rpc>>

\* image mode: await captureAndStore(element, label, timestamp)
CaptureAndStore(outcome) ==
    /\ card.mode = "image"
    /\ card.pc \in Regions \cup {"graphic"}
    /\ outcome \in {"capture", "rejected", "stored"}
    /\ LET region == card.pc
           filename == captureFilename(card.timestamp, LabelText(region))
       IN  IF outcome = "capture"
           THEN card' = throws(card, "capture") /\ sent' = sent
           ELSE /\ sent' = Append(sent, StoreMessage(filename))
                /\ card' = IF outcome = "rejected" THEN throws(card, "store")
                           ELSE [card EXCEPT
                                   !.pc = nextRegion(card, region),
                                   !.front = CASE region = "graphic" -> @ \o imgTag(filename) \o BR
                                               [] region = "front" -> @ \o imgTag(filename)
                                               [] region = "choices" -> @ \o BR \o imgTag(filename)
                                               [] region = "back" -> @,
                                   !.back = IF region = "back" THEN imgTag(filename) ELSE @]
    /\ UNCHANGED <<baseVars, capVars, rpc>>

\* browser.runtime.sendMessage({ action: 'addTextNote', front, back, ... })
SendAddTextNote(ok) ==
    /\ card.pc = "send"
    /\ sent' = Append(sent, [action |-> "addTextNote", front |-> card.front, back |-> card.back])
    /\ card' = IF ok THEN restore([card EXCEPT !.pc = "added"]) ELSE throws(card, "create")
    /\ UNCHANGED <<baseVars, capVars, rpc>>

\* a later click on the control of the added card: removeNote(marker) sends findNotes
RemoveNote ==
    /\ card.pc = "added"
    /\ sent' = Append(sent, [action |-> "findNotes", query |-> findNotesQuery(card.marker)])
    /\ card' = [card EXCEPT !.pc = "removed"]
    /\ UNCHANGED <<baseVars, capVars, rpc>>

\* the number of refs of the region's result
pendingImages == Len(result.images)

NextCard ==
    \/ \E outcome \in {"capture", "recolor", "rejected", "stored"} : CaptureGraphicText(outcome)
    \/ ExtractRegion
    \/ \E outcomes \in [1..pendingImages -> ImageOutcomes(card.fixDarkMode)] :
          ProcessRegion(outcomes)
    \/ \E outcome \in {"capture", "rejected", "stored"} : CaptureAndStore(outcome)
    \/ \E ok \in BOOLEAN : SendAddTextNote(ok)
    \/ RemoveNote

SpecCard == InitCard /\ [][NextCard]_vars

\* C16: in text mode and in image mode, whatever includeChoices, labelFormat
\* and fixDarkMode are and whether a graphic or choices are there, the front
\* field of the create-note message begins with the marker, and every
\* find-notes query, of the existence check and of the removal, is the
\* marker in a search scoped to the Front field, built from the lesson and
\* the step name alone.
MarkerFirst ==
    \A k \in 1..Len(sent) :
        /\ sent[k].action = "addTextNote"
              => SubSeq(sent[k].front, 1, Len(card.marker)) = card.marker
        /\ sent[k].action = "findNotes"
              => /\ card.marker = <<"<", "!", "-", "-", " ", "a", "u", "t", "o", "b", "o", "t", ":">>
                                    \o LESSON \o <<":">> \o STEP_NAME \o <<" ", "-", "-", ">">>
                 /\ sent[k].query = <<"\"", "F", "r", "o", "n", "t", ":">> \o card.marker \o <<"\"">>

\* a text-mode card with a graphic and labelled choices, created and then
\* looked up for removal
MarkerFirstWitness ==
    /\ card.pc = "removed"
    /\ card.mode = "text"
    /\ card.graphic /\ card.choices /\ card.includeChoices
    /\ card.labelFormat = "dot"
    /\ card.n["choices"] = 1
    /\ Len(SelectSeq(sent, LAMBDA msg : msg.action = "findNotes")) = 2
    /\ \E k \in 1..Len(sent) :
           sent[k].action = "addTextNote" /\ Len(sent[k].front) > Len(card.marker)

\* the filenames of the store-blob messages of the operation, in order
StoredFilenames ==
    LET stores == SelectSeq(sent, LAMBDA msg : msg.action = "storeMediaFile")
    IN  [k \in 1..Len(stores) |-> stores[k].filename]

\* C17: the store-blob messages of one addCard all carry different
\* filenames, however many images the front, the choices and the back hold,
\* with or without a graphic, and whichever fetches or stores fail.
FilenamesUnique ==
    \A j, k \in 1..Len(StoredFilenames) :
        j # k => StoredFilenames[j] # StoredFilenames[k]

\* a text-mode card with a graphic and an image in the front and in the
\* back, the store of the first image rejected: three store-blob messages
FilenamesUniqueWitness ==
    /\ card.mode = "text"
    /\ card.graphic
    /\ card.pc = "added"
    /\ card.n["front"] = 1 /\ card.n["back"] = 1
    /\ Len(StoredFilenames) = 3
    /\ Includes(card.front, MISSING_IMAGE)

\* the positions of the create-note messages among the messages sent
CreateNotes == {k \in 1..Len(sent) : sent[k].action = "addTextNote"}

\* create-note sent at most once, after every store-blob message, and the
\* restore function run once on every exit and never before it
CreateNoteLastAndRestored ==
    /\ Cardinality(CreateNotes) <= 1
    /\ \A k \in CreateNotes :
          \A j \in 1..Len(sent) : sent[j].action = "storeMediaFile" => j < k
    /\ card.restores = IF card.prepare /\ card.pc \in {"failed", "added", "removed"}
                       THEN 1 ELSE 0

Untouched(k) ==
    /\ mat.fetched[k] = "none"
    /\ mat.recolored[k] = "none"
    /\ mat.stored[k] = "none"
    /\ mat.filename[k] = <<>>
    /\ mat.subst[k] = <<>>

\* the placeholder of ref k has been replaced, by a reference or by the marker
Finished(k) == Len(mat.subst[k]) = 1

\* C18: within one processExtractedContent call the images are handled one
\* at a time in ref order: while the image of one ref is fetched, recolored
\* or stored, every earlier ref is finished (replaced by its reference or by
\* the missing-image marker) and no later ref has been touched; the refs are
\* those of a walk that completed before the first fetch.
SequentialMaterialization ==
    mat.pc # "idle" =>
        /\ phase = "extracted"
        /\ result = extractContent(dom, 1, options.labelFormat)
        /\ DOMAIN mat.fetched = 1..Len(result.images)
        /\ \A k \in 1..Len(result.images) :
              /\ k < mat.i => Finished(k)
              /\ k > mat.i => Untouched(k)
              /\ (k = mat.i /\ mat.pc = "fetch") => Untouched(k)
        /\ (chan.action = "storeMediaFile" \/ resp # "none")
              => mat.pc = "await" /\ chan.filename \in {<<>>, mat.filename[mat.i]}
        /\ mat.pc = "done" => mat.i = Len(result.images) + 1

\* the second of three images awaits its store, the first failed and was
\* marked, the third has not been touched
SequentialMaterializationWitness ==
    /\ mat.pc = "await"
    /\ Len(result.images) = 3
    /\ mat.i = 2
    /\ mat.subst[1] = <<"marker">>
    /\ mat.fetched[2] = "ok"
    /\ Untouched(3)

\* ---------------------------------------------------------------------------
\* invoke: one call of the note store
\* ---------------------------------------------------------------------------

ANKI_VERSION == 6

AnkiActions == {"deckNames", "findNotes", "addNote", "deleteNotes", "storeMediaFile"}

\* params is optional: undefined, or an object
ParamValues == {"undefined", "params1", "params2"}

\* JSON.stringify({ action, version: 6, params }): an undefined params is left out
envelope(action, params) ==
    IF params = "undefined" THEN [action |-> action, version |-> ANKI_VERSION]
    ELSE [action |-> action, version |-> ANKI_VERSION, params |-> params]

\* what fetch may settle with: a network failure, or a response whose body is
\* empty, is not JSON, or is a JSON object with a result and an error member
\* (error is null when the call succeeded)
HttpOutcomes ==
    {[kind |-> "network"], [kind |-> "empty"], [kind |-> "malformed"]}
        \cup {[kind |-> "json", result |-> r, error |-> e] :
                 r \in {"null", "id1", "id2"}, e \in {"null", "message"}}

\* variant that returns the result whatever the error member holds
invokeSettlesIgnoringError(http) ==
    CASE http.kind = "network" -> [kind |-> "throw", value |-> "TypeError"]
      [] http.kind = "empty" -> [kind |-> "throw", value |-> "Empty response from AnkiConnect"]
      [] http.kind = "malformed" -> [kind |-> "throw", value |-> "SyntaxError"]
      [] OTHER -> [kind |-> "return", value |-> http.result]

\* how invoke settles for what fetch settled with
invokeSettles(http) ==
    CASE http.kind = "network" -> [kind |-> "throw", value |-> "TypeError"]
      [] http.kind = "empty" -> [kind |-> "throw", value |-> "Empty response from AnkiConnect"]
      [] http.kind = "malformed" -> [kind |-> "throw", value |-> "SyntaxError"]
      [] http.error # "null" -> [kind |-> "throw", value |-> http.error]
      [] OTHER -> [kind |-> "return", value |-> http.result]

InitInvoke ==
    /\ \E action \in AnkiActions, params \in ParamValues :
          rpc = [pc |-> "called", action |-> action, params |-> params,
                 posts |-> <<>>, http |-> [kind |-> "none"], settled |-> [kind |-> "none"]]
    /\ WalkIdle
    /\ NormIdle
    /\ MatIdle
    /\ UiIdle
    /\ CapIdle
    /\ CardIdle

\* fetch(ANKI_URL, { method: 'POST', body })
Post ==
    /\ rpc.pc = "called"
    /\ rpc' = [rpc EXCEPT !.pc = "fetching",
                          !.posts = Append(@, [method |-> "POST",
                                               body |-> envelope(rpc.action, rpc.params)])]
    /\ UNCHANGED <<baseVars, capVars, cardVars>>

\* the fetch settles
FetchSettles(http) ==
    /\ rpc.pc = "fetching"
    /\ rpc' = [rpc EXCEPT !.pc = "answered", !.http = http]
    /\ UNCHANGED <<baseVars, capVars, cardVars>>

\* response.text(), JSON.parse, the error test and the return
Settle ==
    /\ rpc.pc = "answered"
    /\ rpc' = [rpc EXCEPT !.pc = "settled", !.settled = invokeSettles(rpc.http)]
    /\ UNCHANGED <<baseVars, capVars, cardVars>>

NextInvoke ==
    \/ Post
    \/ \E http \in HttpOutcomes : FetchSettles(http)
    \/ Settle

SpecInvoke == InitInvoke /\ [][NextInvoke]_vars

\* C19: invoke sends one POST whose body is the envelope of the action,
\* version 6 and the params; for a response of the note store (an empty body
\* or a JSON object with result and error) it throws when the body is empty
\* or the response carries an error, and returns the result member otherwise.
InvokeProtocol ==
    /\ rpc.pc \in {"fetching", "answered", "settled"}
          => /\ Len(rpc.posts) = 1
             /\ rpc.posts[1].method = "POST"
             /\ rpc.posts[1].body.action = rpc.action
             /\ rpc.posts[1].body.version = 6
             /\ DOMAIN rpc.posts[1].body \subseteq {"action", "version", "params"}
             /\ rpc.params # "undefined" => rpc.posts[1].body.params = rpc.params
    /\ (rpc.pc = "settled" /\ rpc.http.kind \in {"empty", "json"})
          => IF rpc.http.kind = "empty" \/ rpc.http.error = "message"
             THEN rpc.settled.kind = "throw"
             ELSE rpc.settled = [kind |-> "return", value |-> rpc.http.result]

\* a call answered with an error member has thrown that error
InvokeProtocolWitness ==
    /\ rpc.pc = "settled"
    /\ rpc.http.kind = "json"
    /\ rpc.http.error = "message"
    /\ rpc.settled = [kind |-> "throw", value |-> "message"]
    /\ Len(rpc.posts) = 1

\* ---------------------------------------------------------------------------
\* Fragments
\* ---------------------------------------------------------------------------

\* C20: after a walk no fragment of the fragment sequence is the empty
\* string, whatever produced it: a text node, a math container (resolved or
\* by its raw text), a widget formatter, a table or a list.
NoEmptyFragment ==
    phase = "extracted" => \A k \in 1..Len(result.parts) : result.parts[k] # <<>>

\* ---------------------------------------------------------------------------
\* Fill-in-the-blank math: a math container that embeds dropdown widgets
\* ---------------------------------------------------------------------------

SpecFillIn ==
    InitFrom("fillin", {Mjx(NoAttrs), Mjx("data-tex" :> Y1), MjPage(NoAttrs)})
        /\ [][NextWalk]_vars

\* the dropdown widgets below n that are not inside another dropdown widget
EmbeddedSelectLists(d, n) ==
    {s \in 1..Len(d) :
        /\ IsDescendant(d, s, n)
        /\ "selectList" \in d[s].cls
        /\ ~\E t \in 1..Len(d) : "selectList" \in d[t].cls /\ IsDescendant(d, s, t)}

\* the glyph elements below n that are not inside a dropdown widget
StaticGlyphs(d, n) ==
    {g \in 1..Len(d) :
        /\ IsDescendant(d, g, n)
        /\ d[g].tag = "MJX-C"
        /\ ~\E t \in 1..Len(d) : "selectList" \in d[t].cls /\ IsDescendant(d, g, t)}

\* C21: a math container of either generation (modern tag or legacy class)
\* that has a dropdown widget among its descendants is not run through
\* math-source resolution, and the fragments hold the formatted text of every
\* embedded dropdown widget and the glyph of every static glyph element.
FillInMath ==
    (phase = "extracted" /\ isMathJaxNode(dom[1]) /\ EmbeddedSelectLists(dom, 1) # {})
        => /\ \A s \in EmbeddedSelectLists(dom, 1) :
                \E k \in 1..Len(result.parts) :
                    result.parts[k] = extractSelectListContent(dom, s).text
           /\ \A g \in StaticGlyphs(dom, 1) :
                \E k \in 1..Len(result.parts) : result.parts[k] = <<"x">>
           /\ \A k \in 1..Len(result.parts) :
                result.parts[k] # INLINE_OPEN \o Y1 \o INLINE_CLOSE

\* ---------------------------------------------------------------------------
\* Text kept by the walk
\* ---------------------------------------------------------------------------

SpecSections == InitFrom("sections", {Div, Table, Ul}) /\ [][NextWalk]_vars

\* style/script, the injected control, the assistive duplicate, and the
\* elements a widget, math or image rule handles without descending
Opaque(node) ==
    /\ node.type = "element"
    /\ \/ node.tag \in {"STYLE", "SCRIPT", "MJX-ASSISTIVE-MML", "SELECT", "IMG", "MJX-C"}
       \/ ankiButton \in node.cls
       \/ "selectList" \in node.cls
       \/ "mjpage" \in node.cls
       \/ node.tag = "MJX-CONTAINER"
       \/ StartsWith(node.id, freeResponsePrefix)

\* the non-whitespace text nodes with no such element among their ancestors
KeptText(d) ==
    {t \in 1..Len(d) :
        /\ d[t].type = "text"
        /\ \E c \in 1..Len(d[t].data) : d[t].data[c] \notin {" ", "\t", "\n"}
        /\ \A a \in 1..Len(d) : IsDescendant(d, t, a) => ~Opaque(d[a])}

\* C22: every non-whitespace text node with no style/script element, injected
\* control, assistive duplicate or non-descending widget/math/image element
\* among its ancestors has its trimmed text in the content extractContent
\* returns, in tables (whatever row section it sits in) and lists included.
NoSilentDrop ==
    phase = "extracted" =>
        \A t \in KeptText(dom) : Contains(result.content, Trim(dom[t].data))

\* ---------------------------------------------------------------------------
\* Paragraph breaks after block elements
\* ---------------------------------------------------------------------------

SpecBlocks == InitFrom("blocks", {Div, Span}) /\ [][NextWalk]_vars

\* n lies inside a list, whose items are walked with block handling disabled
InList(d, n) == \E a \in 1..Len(d) : IsDescendant(d, n, a) /\ d[a].tag \in {"OL", "UL"}

\* the last node of the subtree of n in document order
LastOf(d, n) == Last({n} \cup {i \in 1..Len(d) : IsDescendant(d, i, n)})

\* the nodes of the main walk that push a fragment of their own: non-blank
\* text nodes and lists
Producers(d) ==
    {n \in 1..Len(d) :
        /\ ~InList(d, n)
        /\ \/ d[n].type = "text" /\ \E c \in 1..Len(d[n].data) : d[n].data[c] \notin {" ", "\t", "\n"}
           \/ d[n].tag \in {"OL", "UL"}}

\* the block elements of the main walk at whose end some fragment exists
Breaking(d) ==
    {n \in 1..Len(d) :
        /\ d[n].type = "element"
        /\ d[n].tag \in {"P", "DIV", "BR", "H1", "H2", "H3", "H4"}
        /\ ~InList(d, n)
        /\ \E p \in Producers(d) : p <= LastOf(d, n)}

\* where the break of n stands: after the fragments of the nodes up to the end
\* of n and after the breaks of the block elements that end before n does
BreakPosition(d, n) ==
    Cardinality({p \in Producers(d) : p <= LastOf(d, n)})
        + Cardinality({m \in Breaking(d) :
              \/ LastOf(d, m) < LastOf(d, n)
              \/ LastOf(d, m) = LastOf(d, n) /\ m >= n})

\* C23: with block handling enabled (the main walk), an element with a tag in
\* P, DIV, BR, H1-H4 has its children walked first and then one
\* paragraph-break fragment appended if any fragment exists by then, and none
\* otherwise; an element with another tag, and any element walked with block
\* handling disabled (inside a list item), appends no fragment of its own.
BlockBreaks ==
    phase = "extracted" =>
        /\ Len(result.parts) = Cardinality(Producers(dom)) + Cardinality(Breaking(dom))
        /\ \A n \in Breaking(dom) : result.parts[BreakPosition(dom, n)] = NLNL
        /\ Cardinality({k \in 1..Len(result.parts) : result.parts[k] = NLNL})
               = Cardinality(Breaking(dom))

\* <div><span>a</span><br></div>: no break after the span, one after the line
\* break and one after the root
BlockBreaksWitness ==
    /\ phase = "extracted"
    /\ dom = <<Node(Div, 0), Node(Span, 1), Node(TextNode(A1), 2), Node(Br, 1)>>
    /\ result.parts = <<A1, NLNL, NLNL>>

\* ---------------------------------------------------------------------------
\* Table cells and list items: no paragraph breaks inside the markup
\* ---------------------------------------------------------------------------

SpecNested == InitFrom("nested", {Table, Ul}) /\ [][NextWalk]_vars

\* C24: while the contents of a table cell or of a list item are walked, at
\* any depth of nesting, no paragraph-break fragment is appended and block
\* math is not wrapped in blank lines: the markup processTable or processList
\* returns for a table or a list holds no newline.
NestedNoBreaks ==
    phase = "extracted" =>
        /\ Len(result.parts) = 1
        /\ \A c \in 1..Len(result.parts[1]) : result.parts[1][c] # "\n"

\* <ul><li><p><mjx-container display="block" data-tex="x^2"/></p>a</li></ul>: a
\* paragraph and block math inside a list item
NestedNoBreaksWitness ==
    /\ phase = "extracted"
    /\ dom = <<Node(Ul, 0), Node(Li, 1), Node(Para, 2),
               Node(Mjx(("data-tex" :> X2) @@ ("display" :> BLOCK)), 3),
               Node(TextNode(A1), 2)>>
    /\ result.parts = <<<<"<", "u", "l", ">", "<", "l", "i", ">">> \o BLOCK_OPEN \o X2
                           \o BLOCK_CLOSE \o <<" ", "a", "<", "/", "l", "i", ">",
                                               "<", "/", "u", "l", ">">>>>

\* ---------------------------------------------------------------------------
\* Math resolution without annotations
\* ---------------------------------------------------------------------------

\* no element carries a stored symbolic source or a markup-math attribute
Unannotated(d) ==
    \A n \in 1..Len(d) : ~hasAttribute(d[n], "data-tex") /\ ~hasAttribute(d[n], "data-mathml")

MathContainers(d) ==
    {n \in 1..Len(d) : d[n].type = "element" /\ (d[n].tag = "MJX-CONTAINER" \/ "mjpage" \in d[n].cls)}

\* the containers the walk reaches: those not inside another container
OuterContainers(d) ==
    {n \in MathContainers(d) : \A m \in MathContainers(d) : ~IsDescendant(d, n, m)}

\* resolution finds nothing for any container, and the extraction counts no
\* math and carries the raw text of every container the walk reaches
AllRawText ==
    /\ \A n \in MathContainers(dom) : getTexSource(dom, n) = [type |-> "none", value |-> <<>>]
    /\ phase = "extracted" =>
          /\ result.math = 0
          /\ \A n \in OuterContainers(dom) :
                \E k \in 1..Len(result.parts) : result.parts[k] = textContent(dom, n)

\* C25 as stated: when no element of the walked tree carries a stored
\* symbolic source or a markup-math attribute, resolution returns nothing for
\* every math container and each one is emitted as its raw text.
UnannotatedAllRaw == Unannotated(dom) => AllRawText

\* C25, amended: when no element of the walked tree carries a stored symbolic
\* source or a markup-math attribute and no math container directly follows a
\* math script element with text, resolution returns nothing for every math
\* container and each one is emitted as its raw text.
UnannotatedUnscriptedAllRaw ==
    (Unannotated(dom) /\ \A n \in MathContainers(dom) : PrecedingMathScript(dom, n) = <<>>)
        => AllRawText

\* <div><script></script><span class="mjpage">x^2</span></div>: a container
\* after a script that is no math script, emitted as its text
UnannotatedWitness ==
    /\ phase = "extracted"
    /\ dom = <<Node(Div, 0), Node(PlainScript, 1), Node(MjPage(NoAttrs), 1), Node(TextNode(X2), 3)>>
    /\ result.math = 0
    /\ result.parts = <<X2, NLNL>>

\* ---------------------------------------------------------------------------
\* The injected control inside an extracted element
\* ---------------------------------------------------------------------------

SpecOwnUi ==
    InitFrom("ownui", {Div, Table, Ul, ChoicesTable, SelectList}) /\ [][NextWalk]_vars

SpecPlaceholders ==
    InitFrom("placeholders", {Table, Ul, ChoicesTable}) /\ [][NextWalk]_vars

\* C27: the placeholder of every ref returned by extractContent occurs exactly
\* once in the returned content, and the content has as many placeholder
\* tokens as there are refs (none that is not in the ref list), for images in
\* table cells, list items, choices rows and nested tables; no text node of
\* these pages holds placeholder-shaped text.
PlaceholdersExact ==
    phase = "extracted" =>
        /\ \A k \in 1..Len(result.images) :
              Occurrences(result.content, result.images[k].placeholder) = 1
        /\ Occurrences(result.content, IMG_OPEN) = Len(result.images)

\* the image of a table nested in a choices row, met twice by the walk
PlaceholdersExactWitness ==
    /\ phase = "extracted"
    /\ choicesTableClass \in dom[1].cls
    /\ Len(result.images) = 2
    /\ result.images[1].node = result.images[2].node
    /\ Occurrences(result.content, placeholder(1)) = 1

====
